---- MODULE Spec2Model ----
(***************************************************************************)
(* EasyDoc backend: the local heuristic document-segmentation fallback     *)
(* (backend/src/routes/parse.ts) and the content-analysis service          *)
(* (backend/src/services/ContentAnalysisService.ts).                       *)
(*                                                                         *)
(* Text is a sequence of one-character strings.  Characters that are not   *)
(* ASCII in the source are written with an ASCII name:                     *)
(*   "DI" U+7B2C, "ZHANG" U+7AE0, "JIE" U+8282  (chapter / section marks)  *)
(*   "FC" U+FF1A full-width colon, "DUN" U+3001 enumeration comma          *)
(*   "LIAN","XI" U+8054 U+7CFB (contact cue), "BIAO" U+8868 (table cue)    *)
(*   "BOM" U+FEFF, "REP" U+FFFD, "CTL" a stripped C0 control character     *)
(***************************************************************************)
EXTENDS Integers, Sequences, FiniteSets, TLC

VARIABLES
    file,               \* the uploaded file on disk: [ext, readable, raw]
    docPresent,         \* the document is still in uploadedDocuments
    delPc,              \* position of the DELETE /api/documents/:id handler
    document,           \* the stored document record
    pc,                 \* position of updateDocumentWithIntelligentSampleData
    fileContent,        \* local: decoded text
    lines,              \* local: fileContent.split('\n')
    i,                  \* local: loop index (1-based)
    contentBlocks,      \* local
    structureNodes,     \* local
    blockIndex,         \* local
    nodeIndex,          \* local
    currentY,           \* local
    currentParagraph,   \* local
    paragraphStarted,   \* local
    tabPc,              \* extractTablesFromText (parse.ts): position of the scan
    tabLines,           \* its text.split('\n')
    tabI,               \* its loop index (1-based)
    tabState,           \* its tables, tableIndex, currentTable, inTable
    casPc,              \* ContentAnalysisService.extractStructureNodes: position
    casBlocks,          \* its contentBlocks argument
    casNodes,           \* its nodes
    parentStack,        \* its parentStack, as positions in casNodes
    casK,               \* its forEach index (1-based)
    ctPc,               \* ContentAnalysisService.extractTablesFromText: position
    ctText,             \* its content argument
    ctTables,           \* its result
    figPc,              \* extractFiguresFromText (parse.ts): position of the scan
    figLines,           \* its text.split('\n')
    figI,               \* its loop index (1-based)
    figures,            \* its figures
    refPc,              \* ContentAnalysisService.extractImageReferencesFromText: position
    refContent,         \* its content argument
    refFigures,         \* its result
    apiKey,             \* process.env.EASYDOC_API_KEY is set
    drvPc,              \* position of parseDocumentAsync / executeParsingTask
    task,               \* status of the entry of parseTasks, "none" before POST /api/parse
    easyDoc,            \* EasyDocService: [constructed, called]
    firstRun,           \* what the first parse left, recorded when POST /api/parse arrives
    clsPc,              \* the line classifier applied to one line: position
    clsLine,            \* its trimmed non-empty line
    clsResult,          \* its (blockType, nodeType, level, isSpecialLine)
    encPc,              \* the text-file decoding of the generator (parse.ts 332-391): position
    rawBuffer,          \* its file bytes, as what each decoder makes of them
    encI,               \* its position in encodingsToTry (1-based)
    encContent,         \* its fileContent
    usedEncoding,       \* its usedEncoding
    pollPc,             \* EasyDocService.pollParseResult: position
    maxAttempts,        \* its option maxAttempts
    attempt,            \* its loop counter
    pollCalls,          \* the calls of getParseResult it made
    pollSleeps,         \* the sleeps it made
    pollResponses,      \* the responses of getParseResult, in order
    pollResult,         \* its return value
    heap,               \* the document objects ever created by POST /api/upload: [_id, status, ext]
    uploadedDocuments,  \* the array uploadedDocuments, as positions in heap
    backgroundRuns,     \* the runs of parseDocumentAsync and executeParsingTask, with the parse task of the latter
    deleteRequests,     \* the DELETE /api/documents/:id handlers, with the documentIndex they found
    keyConfigured,      \* process.env.EASYDOC_API_KEY is set, for the concurrent requests
    clientPc,           \* the frontend ApiService.pollParseResult: position
    clientMaxAttempts,  \* its option maxAttempts
    clientAttempt,      \* its loop counter
    statusSeen,         \* the task statuses its polls received, in order
    clientResult        \* its return value

genVars == <<file, docPresent, delPc, document, pc, fileContent, lines, i, contentBlocks,
             structureNodes, blockIndex, nodeIndex, currentY, currentParagraph,
             paragraphStarted>>

tabVars == <<tabPc, tabLines, tabI, tabState>>

casVars == <<casPc, casBlocks, casNodes, parentStack, casK>>

ctVars == <<ctPc, ctText, ctTables>>

figVars == <<figPc, figLines, figI, figures, refPc, refContent, refFigures>>

drvVars == <<apiKey, drvPc, task, easyDoc, firstRun>>

clsVars == <<clsPc, clsLine, clsResult>>

encVars == <<encPc, rawBuffer, encI, encContent, usedEncoding>>

pollVars == <<pollPc, maxAttempts, attempt, pollCalls, pollSleeps, pollResponses, pollResult>>

conVars == <<heap, uploadedDocuments, backgroundRuns, deleteRequests, keyConfigured>>

cliVars == <<clientPc, clientMaxAttempts, clientAttempt, statusSeen, clientResult>>

vars == <<genVars, tabVars, casVars, ctVars, figVars, drvVars, clsVars, encVars, pollVars, conVars, cliVars>>

notGen == <<tabVars, casVars, ctVars, figVars, drvVars, clsVars, encVars, pollVars, conVars, cliVars>>

notTab == <<genVars, casVars, ctVars, figVars, drvVars, clsVars, encVars, pollVars, conVars, cliVars>>

notCas == <<genVars, tabVars, ctVars, figVars, drvVars, clsVars, encVars, pollVars, conVars, cliVars>>

notCt == <<genVars, tabVars, casVars, figVars, drvVars, clsVars, encVars, pollVars, conVars, cliVars>>

notFig == <<genVars, tabVars, casVars, ctVars, drvVars, clsVars, encVars, pollVars, conVars, cliVars>>

notCls == <<genVars, tabVars, casVars, ctVars, figVars, drvVars, encVars, pollVars, conVars, cliVars>>

notEnc == <<genVars, tabVars, casVars, ctVars, figVars, drvVars, clsVars, pollVars, conVars, cliVars>>

notPoll == <<genVars, tabVars, casVars, ctVars, figVars, drvVars, clsVars, encVars, conVars, cliVars>>

notCon == <<genVars, tabVars, casVars, ctVars, figVars, drvVars, clsVars, encVars, pollVars, cliVars>>

notCli == <<genVars, tabVars, casVars, ctVars, figVars, drvVars, clsVars, encVars, pollVars, conVars>>

\* the functions that run on an input of their own
extractorVars == <<tabVars, casVars, ctVars, figVars, clsVars, encVars, pollVars, conVars, cliVars>>

(***************************************************************************)
(* Bounds                                                                  *)
(***************************************************************************)
MaxLines == 4

(***************************************************************************)
(* String primitives (JavaScript String methods on character sequences)   *)
(***************************************************************************)
Max(a, b) == IF a >= b THEN a ELSE b

Min(a, b) == IF a <= b THEN a ELSE b

CeilDiv(n, d) == (n + d - 1) \div d

\* characters removed by String.prototype.trim and matched by \s
IsWhitespace(c) == c \in {" ", "\t", "\n", "\r", "BOM"}

RECURSIVE trimStart(_)
trimStart(s) ==
    IF s # <<>> /\ IsWhitespace(Head(s)) THEN trimStart(Tail(s)) ELSE s

RECURSIVE trimEnd(_)
trimEnd(s) ==
    IF s # <<>> /\ IsWhitespace(s[Len(s)])
    THEN trimEnd(SubSeq(s, 1, Len(s) - 1)) ELSE s

trim(s) == trimEnd(trimStart(s))

includes(s, sub) ==
    \E k \in 0..(Len(s) - Len(sub)) : SubSeq(s, k + 1, k + Len(sub)) = sub

endsWith(s, sub) ==
    Len(s) >= Len(sub) /\ SubSeq(s, Len(s) - Len(sub) + 1, Len(s)) = sub

substring(s, from, to) == SubSeq(s, from + 1, Min(to, Len(s)))

RECURSIVE splitRec(_, _, _)
splitRec(s, sep, cur) ==
    IF s = <<>> THEN <<cur>>
    ELSE IF Head(s) = sep THEN <<cur>> \o splitRec(Tail(s), sep, <<>>)
    ELSE splitRec(Tail(s), sep, Append(cur, Head(s)))

\* s.split(sep) for a one-character separator
split(s, sep) == splitRec(s, sep, <<>>)

RECURSIVE join(_, _)
join(parts, sep) ==
    IF parts = <<>> THEN <<>>
    ELSE IF Len(parts) = 1 THEN parts[1]
    ELSE parts[1] \o sep \o join(Tail(parts), sep)

RECURSIVE removeChars(_, _)
removeChars(s, cs) ==
    IF s = <<>> THEN <<>>
    ELSE IF Head(s) \in cs THEN removeChars(Tail(s), cs)
    ELSE <<Head(s)>> \o removeChars(Tail(s), cs)

RECURSIVE normalizeNewlines(_)
normalizeNewlines(s) ==
    IF s = <<>> THEN <<>>
    ELSE IF Head(s) = "\r"
         THEN IF Len(s) >= 2 /\ s[2] = "\n"
              THEN <<"\n">> \o normalizeNewlines(Tail(Tail(s)))
              ELSE <<"\n">> \o normalizeNewlines(Tail(s))
    ELSE <<Head(s)>> \o normalizeNewlines(Tail(s))

IsDigit(c) == c \in {"0", "1", "2"}

RECURSIVE skipDigits(_)
skipDigits(s) == IF s # <<>> /\ IsDigit(Head(s)) THEN skipDigits(Tail(s)) ELSE s

(***************************************************************************)
(* Table extractor (parse.ts)                                              *)
(***************************************************************************)
\* /^\d+[\.\)]\s/
isNumberedPrefix(line) ==
    LET r == skipDigits(line)
    IN  /\ r # line
        /\ Len(r) >= 2
        /\ r[1] \in {".", ")"}
        /\ IsWhitespace(r[2])

ChineseNumerals == {"YI", "ER", "SAN", "SHI"}

RECURSIVE skipChineseNumerals(_)
skipChineseNumerals(s) ==
    IF s # <<>> /\ Head(s) \in ChineseNumerals
    THEN skipChineseNumerals(Tail(s)) ELSE s

\* /^[<Chinese numeral>]+[\.\)<DUN>]\s/
isChineseNumberedPrefix(line) ==
    LET r == skipChineseNumerals(line)
    IN  /\ r # line
        /\ Len(r) >= 2
        /\ r[1] \in {".", ")", "DUN"}
        /\ IsWhitespace(r[2])

isTableLine(line) ==
    \/ includes(line, <<"|">>)
    \/ includes(line, <<"\t">>)
    \/ (includes(line, <<"FC">>) /\ includes(line, <<"DUN">>))
    \/ isNumberedPrefix(line)
    \/ isChineseNumberedPrefix(line)

isTableTitle(line) ==
    \/ (includes(line, <<"BIAO">>) /\ (includes(line, <<"FC">>) \/ includes(line, <<":">>)))
    \/ includes(line, <<"TONG", "JI">>)
    \/ includes(line, <<"SHU", "JU">>)
    \/ includes(line, <<"QING", "DAN">>)

\* Number(str) is finite for the characters of the model: an optional sign,
\* digits with at most one decimal point, at least one digit
isNumeric(str) ==
    LET body == IF str # <<>> /\ Head(str) \in {"-", "+"} THEN Tail(str) ELSE str
    IN  /\ body # <<>>
        /\ \A k \in 1..Len(body) : IsDigit(body[k]) \/ body[k] = "."
        /\ \E k \in 1..Len(body) : IsDigit(body[k])
        /\ Cardinality({k \in 1..Len(body) : body[k] = "."}) <= 1

\* new Date(s) of a string made of the model's characters is valid only for
\* numeric-looking strings; the length test is the one the code adds
isValidDate(dateString) == isNumeric(dateString) /\ Len(dateString) > 6

detectCellType(value) ==
    LET str == trim(value)
    IN  IF value = <<>> THEN "empty"
        ELSE IF str = <<>> \/ str = <<"-">> \/ str = <<"N", "/", "A">> THEN "empty"
        ELSE IF str \in {<<"t", "r", "u", "e">>, <<"f", "a", "l", "s", "e">>,
                         <<"SHI4">>, <<"FOU">>} THEN "boolean"
        ELSE IF isNumeric(str) THEN "number"
        ELSE IF isValidDate(str) THEN "date"
        ELSE "text"

RECURSIVE mapTrimFilter(_)
\* parts.map(cell => cell.trim()).filter(cell => cell.length > 0)
mapTrimFilter(parts) ==
    IF parts = <<>> THEN <<>>
    ELSE LET c == trim(Head(parts))
         IN  (IF c # <<>> THEN <<c>> ELSE <<>>) \o mapTrimFilter(Tail(parts))

RECURSIVE skipWhitespace(_)
skipWhitespace(s) ==
    IF s # <<>> /\ IsWhitespace(Head(s)) THEN skipWhitespace(Tail(s)) ELSE s

RECURSIVE splitSpacesRec(_, _)
splitSpacesRec(s, cur) ==
    IF s = <<>> THEN <<cur>>
    ELSE IF Len(s) >= 2 /\ IsWhitespace(s[1]) /\ IsWhitespace(s[2])
         THEN <<cur>> \o splitSpacesRec(skipWhitespace(s), <<>>)
    ELSE splitSpacesRec(Tail(s), Append(cur, Head(s)))

\* line.split(/\s{2,}/)
splitSpaces(s) == splitSpacesRec(s, <<>>)

RECURSIVE filterNonBlank(_)
filterNonBlank(parts) ==
    IF parts = <<>> THEN <<>>
    ELSE (IF trim(Head(parts)) # <<>> THEN <<Head(parts)>> ELSE <<>>)
         \o filterNonBlank(Tail(parts))

\* the cells one collected line is split into
splitCells(line) ==
    IF includes(line, <<"|">>) THEN mapTrimFilter(split(line, "|"))
    ELSE IF includes(line, <<"\t">>) THEN mapTrimFilter(split(line, "\t"))
    ELSE IF includes(line, <<"FC">>)
         THEN LET parts == split(line, "FC")
              IN  IF Len(parts) = 2 THEN <<trim(parts[1]), trim(parts[2])>> ELSE <<>>
    ELSE LET cells == filterNonBlank(splitSpaces(line))
         IN  IF Len(cells) = 1 THEN <<trim(line)>> ELSE cells

\* the row a line becomes: kept when it has at least one cell
rowIsKept(cells) == Len(cells) > 0

\* every row of an untitled table flagged as header
headerFlagAnyRow(rowIndex, title) == title = <<>>

\* isHeader: rowIndex === 0 && !title (815)
headerFlag(rowIndex, title) == rowIndex = 0 /\ title = <<>>

RECURSIVE buildRows(_, _, _)
\* lines.forEach((line, rowIndex) => ...) from rowIndex on (0-based)
buildRows(ls, rowIndex, title) ==
    IF ls = <<>> THEN <<>>
    ELSE LET line  == Head(ls)
             cells == splitCells(line)
             row   == [k \in 1..Len(cells) |->
                         [value    |-> cells[k],
                          type     |-> detectCellType(cells[k]),
                          colspan  |-> 1,
                          rowspan  |-> 1,
                          isHeader |-> headerFlag(rowIndex, title)]]
         IN  (IF trim(line) # <<>> /\ rowIsKept(cells) THEN <<row>> ELSE <<>>)
             \o buildRows(Tail(ls), rowIndex + 1, title)

RECURSIVE maxRowLength(_)
\* Math.max(...tableData.map(row => row.length))
maxRowLength(tableData) ==
    IF tableData = <<>> THEN 0
    ELSE Max(Len(Head(tableData)), maxRowLength(Tail(tableData)))

RECURSIVE firstOccurrences(_, _)
firstOccurrences(ts, seen) ==
    IF ts = <<>> THEN <<>>
    ELSE IF Head(ts) \in seen THEN firstOccurrences(Tail(ts), seen)
    ELSE <<Head(ts)>> \o firstOccurrences(Tail(ts), seen \cup {Head(ts)})

RECURSIVE dominant(_, _, _)
\* Object.entries(typeCount).reduce((a, b) => a[1] > b[1] ? a : b)
dominant(a, rest, count) ==
    IF rest = <<>> THEN a
    ELSE dominant(IF count[a] > count[Head(rest)] THEN a ELSE Head(rest), Tail(rest), count)

detectTableDataTypes(tableData) ==
    IF tableData = <<>> THEN <<>>
    ELSE [col \in 1..maxRowLength(tableData) |->
            LET present == SelectSeq(tableData, LAMBDA row : Len(row) >= col /\ row[col].value # <<>>)
                types   == [k \in 1..Len(present) |-> detectCellType(present[k][col].value)]
                order   == firstOccurrences(types, {})
                count   == [t \in {types[k] : k \in 1..Len(types)} |->
                              Cardinality({k \in 1..Len(types) : types[k] = t})]
            IN  IF present = <<>> THEN "empty"
                ELSE dominant(Head(order), Tail(order), count)]

createTableFromLines(lines0, tableIndex) ==
    LET hasTitle  == includes(lines0[1], <<"BIAO">>) \/ includes(lines0[1], <<"FC">>)
        title     == IF hasTitle THEN lines0[1] ELSE <<>>
        ls        == IF hasTitle THEN Tail(lines0) ELSE lines0
        tableData == buildRows(ls, 0, title)
    IN  [id        |-> tableIndex,
         position  |-> [page |-> 1, x |-> 0, y |-> tableIndex * 100, width |-> 100,
                        height |-> Max(50, Len(tableData) * 20)],
         structure |-> [rows      |-> Len(tableData),
                        columns   |-> maxRowLength(tableData),
                        hasHeader |-> (title = <<>> /\ Len(tableData) > 0),
                        hasFooter |-> FALSE],
         data      |-> tableData,
         metadata  |-> [title      |-> IF title # <<>> THEN title
                                       ELSE <<"BIAO", "GE", " ", ToString(tableIndex)>>,
                        caption    |-> title,
                        confidence |-> 85,
                        dataTypes  |-> detectTableDataTypes(tableData)]]

\* one iteration of the scan of extractTablesFromText; st is the loop state
tableScanStep(st, rawLine) ==
    LET line == trim(rawLine)
    IN  IF isTableTitle(line) /\ ~st.inTable
        THEN [st EXCEPT !.inTable = TRUE, !.currentTable = <<line>>]
        ELSE IF isTableLine(line) /\ (st.inTable \/ st.currentTable = <<>>)
        THEN [st EXCEPT !.inTable = TRUE, !.currentTable = Append(@, line)]
        ELSE IF st.inTable /\ line = <<>>
        THEN [tables       |-> IF Len(st.currentTable) >= 2
                               THEN Append(st.tables,
                                           createTableFromLines(st.currentTable, st.tableIndex))
                               ELSE st.tables,
              tableIndex   |-> IF Len(st.currentTable) >= 2
                               THEN st.tableIndex + 1 ELSE st.tableIndex,
              currentTable |-> <<>>,
              inTable      |-> FALSE]
        ELSE IF st.inTable /\ ~isTableLine(line)
        THEN [st EXCEPT !.currentTable = Append(@, line)]
        ELSE st

RECURSIVE tableScan(_, _)
tableScan(st, ls) ==
    IF ls = <<>> THEN st ELSE tableScan(tableScanStep(st, Head(ls)), Tail(ls))

extractTablesFromText(text) ==
    LET st == tableScan([tables |-> <<>>, tableIndex |-> 1,
                         currentTable |-> <<>>, inTable |-> FALSE],
                        split(text, "\n"))
    IN  IF Len(st.currentTable) >= 2
        THEN Append(st.tables, createTableFromLines(st.currentTable, st.tableIndex))
        ELSE st.tables

(***************************************************************************)
(* Figure reference extractor (parse.ts)                                   *)
(***************************************************************************)
\* /<TU>\s*\d+/
matchesFigureNumber(line) ==
    \E k \in 1..Len(line) :
        /\ line[k] = "TU"
        /\ LET r == skipWhitespace(SubSeq(line, k + 1, Len(line)))
           IN  r # <<>> /\ IsDigit(Head(r))

\* the literal figure patterns; /<TU><PIAN>\s*\d*/ matches exactly when the line has <TU><PIAN>
FigureLiterals ==
    << <<"TU", "PIAN">>, <<"SHI", "YI4", "TU">>, <<"LIU", "CHENG", "TU">>,
       <<"JIA", "GOU", "TU">>, <<"JIE2", "TU">>, <<"TU", "BIAO">>, <<"TU", "XIANG">>,
       <<"CHA", "TU">>, <<"PEI", "TU">>, <<"RU", "TU", "SUO", "SHI">>, <<"JIAN", "TU">>,
       <<"CAN", "JIAN", "TU">>, <<"RU", "XIA", "TU">>, <<"SHANG", "TU">>, <<"XIA", "TU">> >>

foundFigure(line) ==
    \/ matchesFigureNumber(line)
    \/ \E k \in 1..Len(FigureLiterals) : includes(line, FigureLiterals[k])

\* the type chosen with the architecture cue tested before the flowchart cue
figureTypeOfArchitectureFirst(line) ==
    IF includes(line, <<"JIA", "GOU", "TU">>) THEN "architecture"
    ELSE IF includes(line, <<"LIU", "CHENG", "TU">>) THEN "flowchart"
    ELSE IF includes(line, <<"SHI", "YI4", "TU">>) THEN "diagram"
    ELSE IF includes(line, <<"TU", "BIAO">>) THEN "chart"
    ELSE IF includes(line, <<"JIE2", "TU">>) THEN "screenshot"
    ELSE "image"

figureTypeOf(line) ==
    IF includes(line, <<"LIU", "CHENG", "TU">>) THEN "flowchart"
    ELSE IF includes(line, <<"JIA", "GOU", "TU">>) THEN "architecture"
    ELSE IF includes(line, <<"SHI", "YI4", "TU">>) THEN "diagram"
    ELSE IF includes(line, <<"TU", "BIAO">>) THEN "chart"
    ELSE IF includes(line, <<"JIE2", "TU">>) THEN "screenshot"
    ELSE "image"

RECURSIVE selectCues(_, _)
\* the cue names, in order, one of whose spellings occurs in text
selectCues(text, cues) ==
    IF cues = <<>> THEN <<>>
    ELSE (IF \E w \in Head(cues).words : includes(text, w)
          THEN <<Head(cues).name>> ELSE <<>>) \o selectCues(text, Tail(cues))

extractTextFromFigureDescription(description) ==
    LET keywords == selectCues(description,
            << [name |-> "xianshi", words |-> {<<"XIAN", "SHI">>, <<"ZHAN", "SHI">>}],
               [name |-> "liucheng", words |-> {<<"LIU", "CHENG">>, <<"BU", "ZHOU">>}],
               [name |-> "jiegou",   words |-> {<<"JIE5", "GOU">>, <<"JIA", "GOU">>}],
               [name |-> "shuju",    words |-> {<<"SHU", "JU">>, <<"TONG", "JI">>}],
               [name |-> "xitong",   words |-> {<<"XI", "TONG">>, <<"MO", "KUAI">>}] >>)
    IN  IF keywords # <<>> THEN [keywords |-> keywords, text |-> <<>>]
        ELSE [keywords |-> <<>>, text |-> substring(description, 0, 50)]

extractObjectsFromDescription(description) ==
    selectCues(description,
        << [name |-> "anniu",   words |-> {<<"AN", "NIU">>}],
           [name |-> "caidan",  words |-> {<<"CAI", "DAN">>}],
           [name |-> "chuangkou", words |-> {<<"CHUANG", "KOU">>}],
           [name |-> "jiemian", words |-> {<<"JIE4", "MIAN">>}],
           [name |-> "tubiao",  words |-> {<<"TU", "BIAO1">>}],
           [name |-> "wenben",  words |-> {<<"WEN", "BEN">>}],
           [name |-> "biaoge",  words |-> {<<"BIAO", "GE">>}],
           [name |-> "liebiao", words |-> {<<"LIE", "BIAO">>}] >>)

RECURSIVE figureContext(_, _, _, _)
\* the description built from the lines j = from..to around line i (1-based)
figureContext(ls, idx, j, to) ==
    IF j > to THEN <<>>
    ELSE LET contextLine == trim(ls[j])
         IN  (IF j # idx /\ Len(contextLine) > 0 /\ ~includes(contextLine, <<"TU">>)
                 /\ Len(contextLine) < 200
              THEN <<" ">> \o contextLine ELSE <<>>)
             \o figureContext(ls, idx, j + 1, to)

\* the record pushed for line idx (1-based) when it holds a figure reference (957-994)
figureRecord(ls, idx, figureIndex) ==
    LET line == trim(ls[idx])
        fullDescription ==
            line \o figureContext(ls, idx, Max(1, idx - 2), Min(Len(ls), idx + 2))
        figureType == figureTypeOf(line)
    IN  [id       |-> figureIndex,
         type     |-> figureType,
         position |-> [page |-> 1, x |-> 0, y |-> figureIndex * 120,
                       width |-> 100, height |-> 80],
         content  |-> [imageUrl    |-> "null",
                       description |-> trim(fullDescription),
                       caption     |-> line,
                       altText     |-> <<figureType, figureIndex>>],
         metadata |-> [confidence    |-> 80,
                       extractedText |-> extractTextFromFigureDescription(fullDescription),
                       colors        |-> <<>>,
                       objects       |-> extractObjectsFromDescription(fullDescription),
                       fileType      |-> "reference",
                       size          |-> "null",
                       isReference   |-> TRUE]]

RECURSIVE figureScan(_, _, _)
figureScan(ls, idx, figureIndex) ==
    IF idx > Len(ls) THEN <<>>
    ELSE IF foundFigure(trim(ls[idx]))
         THEN <<figureRecord(ls, idx, figureIndex)>> \o figureScan(ls, idx + 1, figureIndex + 1)
         ELSE figureScan(ls, idx + 1, figureIndex)

extractFiguresFromText(text) == figureScan(split(text, "\n"), 1, 1)

(***************************************************************************)
(* Fallback generator: helpers of updateDocumentWithIntelligentSampleData  *)
(***************************************************************************)
NoValue == "absent"

extractKeywords(text) ==
    LET keywords == selectCues(text,
            << [name |-> "EasyDoc", words |-> {<<"E", "a", "s", "y", "D", "o", "c">>}],
               [name |-> "wendang", words |-> {<<"WEN", "DANG">>}],
               [name |-> "jiexi",   words |-> {<<"JIE3", "XI1">>}],
               [name |-> "xitong",  words |-> {<<"XI", "TONG">>}],
               [name |-> "gongneng", words |-> {<<"GONG", "NENG">>}],
               [name |-> "jishu",   words |-> {<<"JI4", "SHU4">>}],
               [name |-> "AI",      words |-> {<<"A", "I">>, <<"REN", "GONG", "ZHI", "NENG">>}],
               [name |-> "chuli",   words |-> {<<"CHU", "LI">>}],
               [name |-> "fenxi",   words |-> {<<"FEN", "XI1">>}] >>)
    IN  IF Len(keywords) > 0 THEN keywords ELSE <<"wenben", "neirong">>

\* text.length > 50 ? text.substring(0, 50) + '...' : text
TitleLimit == 50

titleOf(text) ==
    IF Len(text) > TitleLimit THEN substring(text, 0, TitleLimit) \o <<".", ".", ".">> ELSE text

\* /^\d+\./
isNumberDot(line) ==
    LET r == skipDigits(line) IN r # line /\ r # <<>> /\ Head(r) = "."

isChapterLine(line) ==
    includes(line, <<"DI">>) /\ (includes(line, <<"ZHANG">>) \/ includes(line, <<"JIE">>))

isContactLine(line) ==
    \/ includes(line, <<"LIAN", "XI">>)
    \/ includes(line, <<"WANG", "ZHAN">>)
    \/ includes(line, <<"YOU", "XIANG">>)
    \/ includes(line, <<"DIAN", "HUA">>)

\* the classification with the number rule tested before the colon rule
classifyNumberFirst(line) ==
    IF isChapterLine(line)
    THEN [blockType |-> "title", nodeType |-> "chapter", level |-> 1, isSpecialLine |-> TRUE]
    ELSE IF isNumberDot(line)
    THEN [blockType |-> "list_item", nodeType |-> "list", level |-> 3, isSpecialLine |-> TRUE]
    ELSE IF endsWith(line, <<"FC">>) \/ endsWith(line, <<":">>)
    THEN [blockType |-> "subtitle", nodeType |-> "section", level |-> 2, isSpecialLine |-> TRUE]
    ELSE IF isContactLine(line)
    THEN [blockType |-> "contact", nodeType |-> "contact", level |-> 2, isSpecialLine |-> TRUE]
    ELSE [blockType |-> "paragraph", nodeType |-> "paragraph", level |-> 0, isSpecialLine |-> FALSE]

\* the (blockType, nodeType, level, isSpecialLine) of one trimmed line
classify(line) ==
    IF isChapterLine(line)
    THEN [blockType |-> "title", nodeType |-> "chapter", level |-> 1, isSpecialLine |-> TRUE]
    ELSE IF endsWith(line, <<"FC">>) \/ endsWith(line, <<":">>)
    THEN [blockType |-> "subtitle", nodeType |-> "section", level |-> 2, isSpecialLine |-> TRUE]
    ELSE IF isNumberDot(line)
    THEN [blockType |-> "list_item", nodeType |-> "list", level |-> 3, isSpecialLine |-> TRUE]
    ELSE IF isContactLine(line)
    THEN [blockType |-> "contact", nodeType |-> "contact", level |-> 2, isSpecialLine |-> TRUE]
    ELSE [blockType |-> "paragraph", nodeType |-> "paragraph", level |-> 0, isSpecialLine |-> FALSE]

\* the paragraph block pushed by a flush of currentParagraph
paragraphBlock(blockId, paragraph, y, confidence) ==
    [id       |-> blockId,
     type     |-> "paragraph",
     content  |-> trim(paragraph),
     position |-> [page |-> 1, x |-> 0, y |-> y, width |-> 100,
                   height |-> Max(20, CeilDiv(Len(paragraph), 50) * 20)],
     metadata |-> [confidence |-> confidence,
                   wordCount  |-> Len(trim(paragraph)),
                   level      |-> 0,
                   language   |-> NoValue]]

\* the paragraph node pushed together with a flushed paragraph block
paragraphNode(nodeId, blockId, paragraph) ==
    [id              |-> nodeId,
     type            |-> "paragraph",
     title           |-> titleOf(paragraph),
     level           |-> 0,
     position        |-> [page |-> 1, order |-> nodeId],
     parentId        |-> NoValue,
     childIds        |-> <<>>,
     contentBlockIds |-> <<blockId>>,
     metadata        |-> [wordCount  |-> Len(paragraph),
                          importance |-> 100,
                          keywords   |-> extractKeywords(paragraph)]]

\* currentY += Math.max(25, Math.ceil(currentParagraph.length / 50) * 25)
paragraphAdvance(paragraph) == Max(25, CeilDiv(Len(paragraph), 50) * 25)

\* the special-line block and node (parse.ts 580-616)
specialBlock(blockId, line, c, y) ==
    [id       |-> blockId,
     type     |-> c.blockType,
     content  |-> line,
     position |-> [page |-> 1, x |-> c.level * 20, y |-> y,
                   width |-> 100 - (c.level * 20), height |-> 25],
     metadata |-> [confidence |-> 95,
                   wordCount  |-> Len(line),
                   level      |-> c.level,
                   language   |-> NoValue]]

\* importance: level === 0 ? 1.0 : 0.8 - (level * 0.1), in hundredths
specialImportance(level) == IF level = 0 THEN 100 ELSE 80 - (level * 10)

specialNode(nodeId, blockId, line, c) ==
    [id              |-> nodeId,
     type            |-> c.nodeType,
     title           |-> titleOf(line),
     level           |-> c.level,
     position        |-> [page |-> 1, order |-> nodeId],
     parentId        |-> NoValue,
     childIds        |-> <<>>,
     contentBlockIds |-> <<blockId>>,
     metadata        |-> [wordCount  |-> Len(line),
                          importance |-> specialImportance(c.level),
                          keywords   |-> extractKeywords(line)]]

\* the single block and node of the short-document branch (parse.ts 430-469)
\* the content taken without trimming
shortContentUntrimmed(text) == text

\* const content = fileContent.trim() (432)
shortContent(text) == trim(text)

shortBlock(blockId, content) ==
    [id       |-> blockId,
     type     |-> "paragraph",
     content  |-> content,
     position |-> [page |-> 1, x |-> 0, y |-> 0, width |-> 100,
                   height |-> Max(40, CeilDiv(Len(content), 50) * 20)],
     metadata |-> [confidence |-> 95,
                   wordCount  |-> Len(content),
                   level      |-> 0,
                   language   |-> "zh-CN"]]

shortNode(nodeId, blockId, content) ==
    [id              |-> nodeId,
     type            |-> "paragraph",
     title           |-> titleOf(content),
     level           |-> 0,
     position        |-> [page |-> 1, order |-> 1],
     parentId        |-> NoValue,
     childIds        |-> <<>>,
     contentBlockIds |-> <<blockId>>,
     metadata        |-> [wordCount  |-> Len(content),
                          importance |-> 100,
                          keywords   |-> extractKeywords(content)]]

\* Math.random() in 0.90 + Math.random() * 0.09, in hundredths
ConfidenceJitter == {90, 98}

\* post-processing of the decoded text (parse.ts 398-408); NFC leaves the
\* characters of the model unchanged
cleanContent(text) ==
    LET noBom1 == IF text # <<>> /\ Head(text) = "BOM" THEN Tail(text) ELSE text
        noBom2 == IF noBom1 # <<>> /\ Head(noBom1) = "BOM_LE" THEN Tail(noBom1) ELSE noBom1
        unix   == normalizeNewlines(noBom2)
    IN  removeChars(removeChars(unix, {"CTL"}), {"REP"})

RECURSIVE collapseWhitespace(_)
\* .replace(/\s+/g, ' ')
collapseWhitespace(s) ==
    IF s = <<>> THEN <<>>
    ELSE IF IsWhitespace(Head(s)) THEN <<" ">> \o collapseWhitespace(skipWhitespace(s))
    ELSE <<Head(s)>> \o collapseWhitespace(Tail(s))

\* the text left of mammoth's HTML once the tags are replaced by spaces
htmlToText(text) == trim(collapseWhitespace(text))

BasicTitle == <<"NAME", " ", "-", " ", "JIE3", "XI1", "BIAO", "TI">>

BasicParagraph == <<"ZHE", "SHI4", " ", "NAME", " ", "DE", "JIE3", "XI1", "NEI", "RONG">>

\* the two blocks and the node written by updateDocumentWithBasicSampleData
basicSampleDocument ==
    [status         |-> "completed",
     contentBlocks  |-> << [id |-> 1, type |-> "title", content |-> BasicTitle,
                            position |-> [page |-> 1, x |-> 0, y |-> 0, width |-> 100, height |-> 20],
                            metadata |-> [confidence |-> 95, wordCount |-> 3,
                                          level |-> NoValue, language |-> NoValue]],
                           [id |-> 2, type |-> "paragraph", content |-> BasicParagraph,
                            position |-> [page |-> 1, x |-> 0, y |-> 30, width |-> 100, height |-> 40],
                            metadata |-> [confidence |-> 90, wordCount |-> 25,
                                          level |-> NoValue, language |-> NoValue]] >>,
     structureNodes |-> << [id |-> 1, type |-> "document", title |-> <<"NAME">>, level |-> 0,
                            position |-> [page |-> 1, order |-> 0],
                            parentId |-> NoValue, childIds |-> <<>>,
                            contentBlockIds |-> <<1, 2>>,
                            metadata |-> [wordCount |-> 100, importance |-> 100,
                                          keywords |-> <<"document", "parsed">>]] >>]

\* the sample blocks written without the status
updateDocumentWithBasicSampleDataNoStatus(doc) ==
    [doc EXCEPT !.contentBlocks  = basicSampleDocument.contentBlocks,
                !.structureNodes = basicSampleDocument.structureNodes]

\* updateDocumentWithBasicSampleData leaves tables and figures as they were
updateDocumentWithBasicSampleData(doc) ==
    [doc EXCEPT !.status         = basicSampleDocument.status,
                !.contentBlocks  = basicSampleDocument.contentBlocks,
                !.structureNodes = basicSampleDocument.structureNodes]

(***************************************************************************)
(* Inputs                                                                  *)
(***************************************************************************)
GenLines ==
    { <<>>,
      <<" ", "a">>,
      <<"TU", "1">>,
      <<"DI", "ZHANG", "FC", "a">>,
      <<"1", ".", " ", "a">>,
      <<"REP", " ">> }

FileVariants ==
    { [ext |-> ".txt",  eol |-> <<"\n">>],
      [ext |-> ".txt",  eol |-> <<"\r", "\n">>],
      [ext |-> ".docx", eol |-> <<"\n">>],
      [ext |-> ".pdf",  eol |-> <<"\n">>] }

LineLists(pool, n) == UNION {[1..k -> pool] : k \in 0..n}

locals == <<fileContent, lines, i, contentBlocks, structureNodes, blockIndex,
            nodeIndex, currentY, currentParagraph, paragraphStarted>>

InitLocals ==
    /\ fileContent = <<>>
    /\ lines = <<>>
    /\ i = 0
    /\ contentBlocks = <<>>
    /\ structureNodes = <<>>
    /\ blockIndex = 1
    /\ nodeIndex = 1
    /\ currentY = 0
    /\ currentParagraph = <<>>
    /\ paragraphStarted = FALSE

InitTableScan == [tables |-> <<>>, tableIndex |-> 1, currentTable |-> <<>>, inTable |-> FALSE]

\* no table scan of its own is running
TabOff ==
    /\ tabPc = "off"
    /\ tabLines = <<>>
    /\ tabI = 0
    /\ tabState = InitTableScan

\* extractStructureNodes is not running
CasOff ==
    /\ casPc = "off"
    /\ casBlocks = <<>>
    /\ casNodes = <<>>
    /\ parentStack = <<>>
    /\ casK = 0

\* the service's extractTablesFromText is not running
CtOff ==
    /\ ctPc = "off"
    /\ ctText = <<>>
    /\ ctTables = <<>>

\* the line classifier is not applied to a line of its own
ClsOff ==
    /\ clsPc = "off"
    /\ clsLine = <<>>
    /\ clsResult = classify(<<>>)

\* the generator decodes no text file of its own
EncOff ==
    /\ encPc = "off"
    /\ rawBuffer = [detected |-> <<>>, decoded |-> <<>>]
    /\ encI = 0
    /\ encContent = <<>>
    /\ usedEncoding = "none"

\* pollParseResult is not called
PollOff ==
    /\ pollPc = "off"
    /\ maxAttempts = 0
    /\ attempt = 0
    /\ pollCalls = 0
    /\ pollSleeps = 0
    /\ pollResponses = <<>>
    /\ pollResult = [success |-> FALSE, errCode |-> NoValue, task_status |-> NoValue]

\* the frontend polls no task
CliOff ==
    /\ clientPc = "off"
    /\ clientMaxAttempts = 0
    /\ clientAttempt = 0
    /\ statusSeen = <<>>
    /\ clientResult = [success |-> FALSE, code |-> NoValue]

\* no concurrent request is followed
ConOff ==
    /\ heap = <<>>
    /\ uploadedDocuments = <<>>
    /\ backgroundRuns = <<>>
    /\ deleteRequests = <<>>
    /\ keyConfigured = FALSE

\* no parse is driven by parseDocumentAsync or executeParsingTask
DrvOff ==
    /\ apiKey = FALSE
    /\ drvPc = "off"
    /\ task = "none"
    /\ easyDoc = [constructed |-> FALSE, called |-> FALSE]
    /\ firstRun = <<>>

\* neither figure extractor is running on a text of its own
FigOff ==
    /\ figPc = "off"
    /\ figLines = <<>>
    /\ figI = 0
    /\ figures = <<>>
    /\ refPc = "off"
    /\ refContent = <<>>
    /\ refFigures = <<>>

\* no generator run is in progress and no document is stored
GenOff ==
    /\ file = [ext |-> ".txt", readable |-> FALSE, raw |-> <<>>]
    /\ docPresent = FALSE
    /\ delPc = "none"
    /\ document = [status |-> "parsing", contentBlocks |-> <<>>, structureNodes |-> <<>>,
                   tables |-> <<>>, figures |-> <<>>]
    /\ pc = "off"
    /\ InitLocals

\* the state after POST /api/upload created the document (upload.ts 96-113)
Init ==
    /\ \E v \in FileVariants :
         \/ \E ls \in LineLists(GenLines, MaxLines) :
               file = [ext |-> v.ext, readable |-> TRUE, raw |-> join(ls, v.eol)]
         \/ file = [ext |-> v.ext, readable |-> FALSE, raw |-> <<>>]
    /\ docPresent = TRUE
    /\ delPc = "none"
    /\ document = [status |-> "parsing", contentBlocks |-> <<>>, structureNodes |-> <<>>,
                   tables |-> <<>>, figures |-> <<>>]
    /\ pc = "idle"
    /\ InitLocals
    /\ TabOff
    /\ CasOff
    /\ CtOff
    /\ FigOff
    /\ DrvOff
    /\ ClsOff
    /\ EncOff
    /\ PollOff
    /\ ConOff
    /\ CliOff

(***************************************************************************)
(* updateDocumentWithIntelligentSampleData (parse.ts 238-689)              *)
(***************************************************************************)
\* the document is not in uploadedDocuments: return at once (239-240)
StartMissingDocument ==
    /\ pc = "idle"
    /\ ~docPresent
    /\ pc' = "returned"
    /\ UNCHANGED <<file, docPresent, delPc, document, locals>>
    /\ UNCHANGED notGen

\* .docx / .doc: await mammoth.extractRawText (267-273)
\* .pdf: readFileSync, then await pdfParse (321-322)
StartBinary ==
    /\ pc = "idle"
    /\ docPresent
    /\ file.ext \in {".docx", ".doc", ".pdf"}
    /\ file.ext = ".pdf" => file.readable
    /\ pc' = "awaitExtract"
    /\ UNCHANGED <<file, docPresent, delPc, document, locals>>
    /\ UNCHANGED notGen

\* other extensions: readFileSync and decoding (332-391)
StartText ==
    /\ pc = "idle"
    /\ docPresent
    /\ file.ext \notin {".docx", ".doc", ".pdf"}
    /\ file.readable
    /\ fileContent' = file.raw
    /\ pc' = "clean"
    /\ UNCHANGED <<file, docPresent, delPc, document, lines, i, contentBlocks,
                   structureNodes, blockIndex, nodeIndex, currentY,
                   currentParagraph, paragraphStarted>>
    /\ UNCHANGED notGen

\* readFileSync throws on a missing or unreadable file (321, 332)
ReadFails ==
    /\ pc = "idle"
    /\ docPresent
    /\ file.ext \notin {".docx", ".doc"}
    /\ ~file.readable
    /\ pc' = "catch"
    /\ UNCHANGED <<file, docPresent, delPc, document, locals>>
    /\ UNCHANGED notGen

\* mammoth.extractRawText / pdfParse resolves with the text of the file
ExtractResolves ==
    /\ pc = "awaitExtract"
    /\ file.readable
    /\ fileContent' = file.raw
    /\ pc' = IF file.ext \in {".docx", ".doc"} /\ Len(trim(file.raw)) < 10
             THEN "awaitHtml" ELSE "clean"
    /\ UNCHANGED <<file, docPresent, delPc, document, lines, i, contentBlocks,
                   structureNodes, blockIndex, nodeIndex, currentY,
                   currentParagraph, paragraphStarted>>
    /\ UNCHANGED notGen

\* the extraction library rejects: missing, unreadable or corrupt file (305-308, 326-329)
ExtractRejects ==
    /\ pc = "awaitExtract"
    /\ pc' = "catch"
    /\ UNCHANGED <<file, docPresent, delPc, document, locals>>
    /\ UNCHANGED notGen

\* mammoth.convertToHtml: a non-empty value replaces fileContent, an empty
\* value or a rejection leaves it (279-300)
HtmlExtraction ==
    /\ pc = "awaitHtml"
    /\ \E ok \in BOOLEAN :
         fileContent' = IF ok /\ file.readable /\ file.raw # <<>>
                        THEN htmlToText(file.raw) ELSE fileContent
    /\ pc' = "clean"
    /\ UNCHANGED <<file, docPresent, delPc, document, lines, i, contentBlocks,
                   structureNodes, blockIndex, nodeIndex, currentY,
                   currentParagraph, paragraphStarted>>
    /\ UNCHANGED notGen

\* cleanup, then the content is empty: throw (398-414)
EmptyContent ==
    /\ pc = "clean"
    /\ trim(cleanContent(fileContent)) = <<>>
    /\ fileContent' = cleanContent(fileContent)
    /\ pc' = "catch"
    /\ UNCHANGED <<file, docPresent, delPc, document, lines, i, contentBlocks,
                   structureNodes, blockIndex, nodeIndex, currentY,
                   currentParagraph, paragraphStarted>>
    /\ UNCHANGED notGen

\* the number of lines up to which the whole text becomes one paragraph (430)
ShortDocumentLines == 3

\* lines.length < 3 in place of lines.length <= 3
isShortDocumentStrict(ls, text) ==
    Len(ls) < ShortDocumentLines /\ Len(trim(text)) > 0

\* lines.length <= 3 && fileContent.trim().length > 0 (430)
isShortDocument(ls, text) ==
    Len(ls) <= ShortDocumentLines /\ Len(trim(text)) > 0

\* cleanup, then split into lines (398-427)
SplitLines ==
    /\ pc = "clean"
    /\ trim(cleanContent(fileContent)) # <<>>
    /\ fileContent' = cleanContent(fileContent)
    /\ lines' = split(cleanContent(fileContent), "\n")
    /\ i' = 1
    /\ pc' = IF isShortDocument(lines', fileContent') THEN "short" ELSE "loop"
    /\ UNCHANGED <<file, docPresent, delPc, document, contentBlocks, structureNodes,
                   blockIndex, nodeIndex, currentY, currentParagraph, paragraphStarted>>
    /\ UNCHANGED notGen

\* lines.length <= 3: the whole trimmed text is one paragraph (430-469)
ShortDocument ==
    /\ pc = "short"
    /\ contentBlocks' = Append(contentBlocks, shortBlock(blockIndex, shortContent(fileContent)))
    /\ structureNodes' = Append(structureNodes,
                                shortNode(nodeIndex, blockIndex, shortContent(fileContent)))
    /\ pc' = "update"
    /\ UNCHANGED <<file, docPresent, delPc, document, fileContent, lines, i, blockIndex,
                   nodeIndex, currentY, currentParagraph, paragraphStarted>>
    /\ UNCHANGED notGen

\* the flush condition shared by the three flush sites
flushNeeded == paragraphStarted /\ Len(trim(currentParagraph)) > 0

\* loop body, blank line (477-523)
BlankLine ==
    /\ pc = "loop"
    /\ i <= Len(lines)
    /\ trim(lines[i]) = <<>>
    /\ IF flushNeeded
       THEN \E c \in ConfidenceJitter :
              /\ contentBlocks' = Append(contentBlocks,
                     paragraphBlock(blockIndex, currentParagraph, currentY, c))
              /\ structureNodes' = Append(structureNodes,
                     paragraphNode(nodeIndex, blockIndex, currentParagraph))
              /\ blockIndex' = blockIndex + 1
              /\ nodeIndex' = nodeIndex + 1
              /\ currentY' = currentY + paragraphAdvance(currentParagraph)
              /\ currentParagraph' = <<>>
              /\ paragraphStarted' = FALSE
       ELSE UNCHANGED <<contentBlocks, structureNodes, blockIndex, nodeIndex, currentY,
                        currentParagraph, paragraphStarted>>
    /\ i' = i + 1
    /\ UNCHANGED <<file, docPresent, delPc, document, pc, fileContent, lines>>
    /\ UNCHANGED notGen

\* loop body, special line: flush the open paragraph (block only), then the
\* line's own block and node (554-620)
SpecialLine ==
    /\ pc = "loop"
    /\ i <= Len(lines)
    /\ trim(lines[i]) # <<>>
    /\ classify(trim(lines[i])).isSpecialLine
    /\ LET line == trim(lines[i])
           c    == classify(line)
       IN  \E j \in ConfidenceJitter :
             LET flushed == IF flushNeeded
                            THEN <<paragraphBlock(blockIndex, currentParagraph, currentY, j)>>
                            ELSE <<>>
                 bi      == blockIndex + Len(flushed)
                 y       == IF flushNeeded
                            THEN currentY + paragraphAdvance(currentParagraph)
                            ELSE currentY
             IN  /\ (~flushNeeded => j = 90)
                 /\ contentBlocks' = contentBlocks \o flushed
                                       \o <<specialBlock(bi, line, c, y)>>
                 /\ structureNodes' = Append(structureNodes,
                                             specialNode(nodeIndex, bi, line, c))
                 /\ blockIndex' = bi + 1
                 /\ nodeIndex' = nodeIndex + 1
                 /\ currentY' = y + 30
                 /\ currentParagraph' = IF flushNeeded THEN <<>> ELSE currentParagraph
                 /\ paragraphStarted' = IF flushNeeded THEN FALSE ELSE paragraphStarted
    /\ i' = i + 1
    /\ UNCHANGED <<file, docPresent, delPc, document, pc, fileContent, lines>>
    /\ UNCHANGED notGen

\* the prose line appended to the open paragraph without a separator
ProseLineUnseparated ==
    /\ pc = "loop"
    /\ i <= Len(lines)
    /\ trim(lines[i]) # <<>>
    /\ ~classify(trim(lines[i])).isSpecialLine
    /\ currentParagraph' = currentParagraph \o trim(lines[i])
    /\ paragraphStarted' = TRUE
    /\ i' = i + 1
    /\ UNCHANGED <<file, docPresent, delPc, document, pc, fileContent, lines,
                   contentBlocks, structureNodes, blockIndex, nodeIndex, currentY>>
    /\ UNCHANGED notGen

\* loop body, prose line: append to the open paragraph (621-628)
ProseLine ==
    /\ pc = "loop"
    /\ i <= Len(lines)
    /\ trim(lines[i]) # <<>>
    /\ ~classify(trim(lines[i])).isSpecialLine
    /\ currentParagraph' = (IF Len(currentParagraph) > 0
                            THEN currentParagraph \o <<" ">> ELSE currentParagraph)
                           \o trim(lines[i])
    /\ paragraphStarted' = TRUE
    /\ i' = i + 1
    /\ UNCHANGED <<file, docPresent, delPc, document, pc, fileContent, lines,
                   contentBlocks, structureNodes, blockIndex, nodeIndex, currentY>>
    /\ UNCHANGED notGen

\* the loop left without the flush of the last paragraph
FinalFlushOmitted ==
    /\ pc = "loop"
    /\ i > Len(lines)
    /\ pc' = "update"
    /\ UNCHANGED <<file, docPresent, delPc, document, fileContent, lines, i, blockIndex,
                   nodeIndex, currentY, currentParagraph, paragraphStarted, contentBlocks,
                   structureNodes>>
    /\ UNCHANGED notGen

\* after the loop: the last paragraph (632-667)
FinalFlush ==
    /\ pc = "loop"
    /\ i > Len(lines)
    /\ IF flushNeeded
       THEN \E c \in ConfidenceJitter :
              /\ contentBlocks' = Append(contentBlocks,
                     paragraphBlock(blockIndex, currentParagraph, currentY, c))
              /\ structureNodes' = Append(structureNodes,
                     paragraphNode(nodeIndex, blockIndex, currentParagraph))
       ELSE UNCHANGED <<contentBlocks, structureNodes>>
    /\ pc' = "update"
    /\ UNCHANGED <<file, docPresent, delPc, document, fileContent, lines, i, blockIndex,
                   nodeIndex, currentY, currentParagraph, paragraphStarted>>
    /\ UNCHANGED notGen

\* the document update with the new blocks, nodes and tables added to the
\* lists the document already holds
UpdateDocumentAppending ==
    /\ pc = "update"
    /\ document' = IF docPresent
                   THEN [status         |-> "completed",
                         contentBlocks  |-> document.contentBlocks \o contentBlocks,
                         structureNodes |-> document.structureNodes \o structureNodes,
                         tables         |-> document.tables \o extractTablesFromText(fileContent),
                         figures        |-> extractFiguresFromText(fileContent)]
                   ELSE document
    /\ pc' = "done"
    /\ UNCHANGED <<file, docPresent, delPc, locals>>
    /\ UNCHANGED notGen

\* tables, figures and the document update (671-679); the record found at
\* entry is written, which the store shows only while it still holds it
UpdateDocument ==
    /\ pc = "update"
    /\ document' = IF docPresent
                   THEN [status         |-> "completed",
                         contentBlocks  |-> contentBlocks,
                         structureNodes |-> structureNodes,
                         tables         |-> extractTablesFromText(fileContent),
                         figures        |-> extractFiguresFromText(fileContent)]
                   ELSE document
    /\ pc' = "done"
    /\ UNCHANGED <<file, docPresent, delPc, locals>>
    /\ UNCHANGED notGen

\* catch: updateDocumentWithBasicSampleData(documentId) (683-688, 1040-1075)
CatchBasicSample ==
    /\ pc = "catch"
    /\ document' = IF docPresent THEN updateDocumentWithBasicSampleData(document)
                   ELSE document
    /\ pc' = "substituted"
    /\ UNCHANGED <<file, docPresent, delPc, locals>>
    /\ UNCHANGED notGen

(***************************************************************************)
(* DELETE /api/documents/:id (documents.ts 298-333)                        *)
(***************************************************************************)
\* the points where the event loop can run another handler
AtAwait == pc \in {"off", "idle", "awaitExtract", "awaitHtml", "done", "substituted", "returned"}

\* findIndex, then await fs.unlink(filePath)
DeleteUnlink ==
    /\ AtAwait
    /\ delPc = "none"
    /\ docPresent
    /\ file' = [file EXCEPT !.readable = FALSE]
    /\ delPc' = "unlinked"
    /\ UNCHANGED <<docPresent, document, pc, locals>>
    /\ UNCHANGED notGen

\* uploadedDocuments.splice(documentIndex, 1)
DeleteSplice ==
    /\ AtAwait
    /\ delPc = "unlinked"
    /\ docPresent' = FALSE
    /\ delPc' = "done"
    /\ UNCHANGED <<file, document, pc, locals>>
    /\ UNCHANGED notGen

Next ==
    \/ StartMissingDocument
    \/ StartBinary
    \/ StartText
    \/ ReadFails
    \/ ExtractResolves
    \/ ExtractRejects
    \/ HtmlExtraction
    \/ EmptyContent
    \/ SplitLines
    \/ ShortDocument
    \/ BlankLine
    \/ SpecialLine
    \/ ProseLine
    \/ FinalFlush
    \/ UpdateDocument
    \/ CatchBasicSample
    \/ DeleteUnlink
    \/ DeleteSplice

Spec == Init /\ [][Next]_vars

(***************************************************************************)
(* parseDocumentAsync (upload.ts 148-185), POST /api/parse and             *)
(* executeParsingTask (parse.ts 23-198): the two callers of the generator  *)
(***************************************************************************)
MaxParseLines == 4

ParseLines ==
    { <<>>,
      <<" ", "a">>,
      <<"DI", "ZHANG", "|", "a">> }

\* what the EasyDoc API returned in parseResult.data
ApiParseData ==
    { [content_blocks |-> <<>>, structure_nodes |-> <<>>, tables |-> <<>>, figures |-> <<>>],
      [content_blocks |-> <<specialBlock(1, <<"a">>, classify(<<"a", ":">>), 0)>>,
       structure_nodes |-> <<>>, tables |-> <<>>, figures |-> <<>>] }

\* updateDocumentWithParseResult (parse.ts 203-214, upload.ts 190-204)
updateDocumentWithParseResult(doc, parseData) ==
    [status         |-> "completed",
     contentBlocks  |-> parseData.content_blocks,
     structureNodes |-> parseData.structure_nodes,
     tables         |-> parseData.tables,
     figures        |-> parseData.figures]

\* the state after POST /api/upload created the document and scheduled
\* parseDocumentAsync (upload.ts 96-127)
InitParse ==
    /\ \E ls \in LineLists(ParseLines, MaxParseLines), ext \in {".txt", ".docx"} :
          file = [ext |-> ext, readable |-> TRUE, raw |-> join(ls, <<"\n">>)]
    /\ docPresent = TRUE
    /\ delPc = "none"
    /\ document = [status |-> "parsing", contentBlocks |-> <<>>, structureNodes |-> <<>>,
                   tables |-> <<>>, figures |-> <<>>]
    /\ pc = "off"
    /\ InitLocals
    /\ TabOff
    /\ CasOff
    /\ CtOff
    /\ FigOff
    /\ ClsOff
    /\ EncOff
    /\ PollOff
    /\ ConOff
    /\ CliOff
    /\ apiKey \in BOOLEAN
    /\ drvPc = "parseDocumentAsync"
    /\ task = "none"
    /\ easyDoc = [constructed |-> FALSE, called |-> FALSE]
    /\ firstRun = <<>>

\* a call of updateDocumentWithIntelligentSampleData: its locals are new
CallGenerator ==
    /\ pc' = "idle"
    /\ fileContent' = <<>>
    /\ lines' = <<>>
    /\ i' = 0
    /\ contentBlocks' = <<>>
    /\ structureNodes' = <<>>
    /\ blockIndex' = 1
    /\ nodeIndex' = 1
    /\ currentY' = 0
    /\ currentParagraph' = <<>>
    /\ paragraphStarted' = FALSE

\* parseDocumentAsync without EASYDOC_API_KEY (upload.ts 153-158)
UploadNoKey ==
    /\ drvPc = "parseDocumentAsync"
    /\ ~apiKey
    /\ CallGenerator
    /\ drvPc' = "uploadAwaitFallback"
    /\ UNCHANGED <<file, docPresent, delPc, document, apiKey, task, easyDoc, firstRun,
                   extractorVars>>

\* new EasyDocService() and the call of parseDocument without the test of
\* the key: the constructor throws and the catch runs the generator
UploadConstructClientUnguarded ==
    /\ drvPc = "parseDocumentAsync"
    /\ easyDoc' = [constructed |-> TRUE, called |-> apiKey]
    /\ IF apiKey
       THEN /\ drvPc' = "uploadAwaitApi"
            /\ UNCHANGED <<pc, locals>>
       ELSE /\ drvPc' = "uploadAwaitFallback"
            /\ CallGenerator
    /\ UNCHANGED <<file, docPresent, delPc, document, apiKey, task, firstRun, extractorVars>>

\* new EasyDocService() and await easyDocService.parseDocument (upload.ts 161-166)
UploadConstructClient ==
    /\ drvPc = "parseDocumentAsync"
    /\ apiKey
    /\ easyDoc' = [constructed |-> TRUE, called |-> TRUE]
    /\ drvPc' = "uploadAwaitApi"
    /\ UNCHANGED <<file, docPresent, delPc, document, pc, locals, apiKey, task, firstRun,
                   extractorVars>>

\* parseResult.success && parseResult.data (upload.ts 168-170)
UploadApiSuccess ==
    /\ drvPc = "uploadAwaitApi"
    /\ \E parseData \in ApiParseData :
          document' = IF docPresent THEN updateDocumentWithParseResult(document, parseData)
                      ELSE document
    /\ drvPc' = "uploadDone"
    /\ UNCHANGED <<file, docPresent, delPc, pc, locals, apiKey, task, easyDoc, firstRun,
                   extractorVars>>

\* the API reports a failure or parseDocument rejects (upload.ts 171-184)
UploadApiFailure ==
    /\ drvPc = "uploadAwaitApi"
    /\ CallGenerator
    /\ drvPc' = "uploadAwaitFallback"
    /\ UNCHANGED <<file, docPresent, delPc, document, apiKey, task, easyDoc, firstRun,
                   extractorVars>>

\* the awaited generator settled: parseDocumentAsync returns
UploadReturn ==
    /\ drvPc = "uploadAwaitFallback"
    /\ pc \in {"done", "substituted", "returned"}
    /\ drvPc' = "uploadDone"
    /\ UNCHANGED <<genVars, apiKey, task, easyDoc, firstRun, extractorVars>>

\* POST /api/parse for the document, after its upload parse ended: the
\* task is created PENDING and executeParsingTask is scheduled (23-96)
PostParse ==
    /\ drvPc = "uploadDone"
    /\ docPresent
    /\ task' = "PENDING"
    /\ firstRun' = <<[outcome |-> pc, fileContent |-> fileContent, document |-> document]>>
    /\ drvPc' = "executeParsingTask"
    /\ UNCHANGED <<genVars, apiKey, easyDoc, extractorVars>>

\* the callback of setImmediate starts executeParsingTask: the task becomes
\* PROGRESSING (101-114)
TaskStart ==
    /\ drvPc = "executeParsingTask"
    /\ task' = "PROGRESSING"
    /\ drvPc' = "taskStarted"
    /\ UNCHANGED <<genVars, apiKey, easyDoc, firstRun, extractorVars>>

\* building the file path throws (process.cwd() of a removed directory):
\* the outer catch makes the task FAILED (116-118, 187-197)
TaskFails ==
    /\ drvPc = "taskStarted"
    /\ task' = "FAILED"
    /\ drvPc' = "taskDone"
    /\ UNCHANGED <<genVars, apiKey, easyDoc, firstRun, extractorVars>>

\* executeParsingTask without EASYDOC_API_KEY (116-125)
TaskNoKey ==
    /\ drvPc = "taskStarted"
    /\ ~apiKey
    /\ CallGenerator
    /\ drvPc' = "taskAwaitFallback"
    /\ UNCHANGED <<file, docPresent, delPc, document, apiKey, task, easyDoc, firstRun,
                   extractorVars>>

\* new EasyDocService() and await easyDocService.parseDocument (116-145)
TaskConstructClient ==
    /\ drvPc = "taskStarted"
    /\ apiKey
    /\ easyDoc' = [constructed |-> TRUE, called |-> TRUE]
    /\ drvPc' = "taskAwaitApi"
    /\ UNCHANGED <<file, docPresent, delPc, document, pc, locals, apiKey, task, firstRun,
                   extractorVars>>

\* parseResult.success && parseResult.data (147-158)
TaskApiSuccess ==
    /\ drvPc = "taskAwaitApi"
    /\ \E parseData \in ApiParseData :
          document' = IF docPresent THEN updateDocumentWithParseResult(document, parseData)
                      ELSE document
    /\ task' = "SUCCESS"
    /\ drvPc' = "taskDone"
    /\ UNCHANGED <<file, docPresent, delPc, pc, locals, apiKey, easyDoc, firstRun,
                   extractorVars>>

\* the failure of the API marks the task FAILED before the generator runs
TaskApiFailureMarksFailed ==
    /\ drvPc = "taskAwaitApi"
    /\ CallGenerator
    /\ task' = "FAILED"
    /\ drvPc' = "taskAwaitFallback"
    /\ UNCHANGED <<file, docPresent, delPc, document, apiKey, easyDoc, firstRun,
                   extractorVars>>

\* the API reports a failure or parseDocument rejects (159-179)
TaskApiFailure ==
    /\ drvPc = "taskAwaitApi"
    /\ CallGenerator
    /\ drvPc' = "taskAwaitFallback"
    /\ UNCHANGED <<file, docPresent, delPc, document, apiKey, task, easyDoc, firstRun,
                   extractorVars>>

\* the awaited generator settled: the task becomes SUCCESS (127-133, 166-171, 180-185)
TaskReturn ==
    /\ drvPc = "taskAwaitFallback"
    /\ pc \in {"done", "substituted", "returned"}
    /\ task' = "SUCCESS"
    /\ drvPc' = "taskDone"
    /\ UNCHANGED <<genVars, apiKey, easyDoc, firstRun, extractorVars>>

NextParse ==
    \/ UploadNoKey
    \/ UploadConstructClient
    \/ UploadApiSuccess
    \/ UploadApiFailure
    \/ UploadReturn
    \/ PostParse
    \/ TaskStart
    \/ TaskFails
    \/ TaskNoKey
    \/ TaskConstructClient
    \/ TaskApiSuccess
    \/ TaskApiFailure
    \/ TaskReturn
    \/ Next

SpecParse == InitParse /\ [][NextParse]_vars

\* the files of the check of the life of a task: an empty file, one line,
\* and four lines of which one is blank and one is special
TaskTexts ==
    { <<>>, <<"a">>, <<"a", "\n", "\n", ":", "\n", "a">> }

\* the state after POST /api/upload created the document and scheduled
\* parseDocumentAsync (upload.ts 96-127)
InitTask ==
    /\ \E raw \in TaskTexts, ext \in {".txt", ".docx"} :
          file = [ext |-> ext, readable |-> TRUE, raw |-> raw]
    /\ docPresent = TRUE
    /\ delPc = "none"
    /\ document = [status |-> "parsing", contentBlocks |-> <<>>, structureNodes |-> <<>>,
                   tables |-> <<>>, figures |-> <<>>]
    /\ pc = "off"
    /\ InitLocals
    /\ TabOff
    /\ CasOff
    /\ CtOff
    /\ FigOff
    /\ ClsOff
    /\ EncOff
    /\ PollOff
    /\ ConOff
    /\ CliOff
    /\ apiKey \in BOOLEAN
    /\ drvPc = "parseDocumentAsync"
    /\ task = "none"
    /\ easyDoc = [constructed |-> FALSE, called |-> FALSE]
    /\ firstRun = <<>>

\* the event loop runs every callback that is ready, and the awaited API
\* call and file extraction return
SpecTask == InitTask /\ [][NextParse]_vars /\ WF_vars(NextParse)

(***************************************************************************)
(* extractTablesFromText (parse.ts 714-769), one loop iteration per step   *)
(***************************************************************************)
MaxTableLines == 4

TableLines ==
    { <<>>,
      <<"a", "|", "b">>,
      <<"1", " ", "|", "2">>,
      <<"a", "|", "b", "|", "1">>,
      <<"|", "2", "|", "b", "|", "a", "|">>,
      <<"c">>,
      <<"BIAO", ":">>,
      <<"a", "|">>,
      <<"|">>,
      <<"a", "FC", "b">>,
      <<"a", " ", " ", "b">> }

InitTables ==
    /\ GenOff
    /\ CasOff
    /\ CtOff
    /\ FigOff
    /\ DrvOff
    /\ ClsOff
    /\ EncOff
    /\ PollOff
    /\ ConOff
    /\ CliOff
    /\ \E ls \in LineLists(TableLines, MaxTableLines) :
          tabLines = split(join(ls, <<"\n">>), "\n")
    /\ tabI = 1
    /\ tabState = InitTableScan
    /\ tabPc = "scan"

\* for (let i = 0; i < lines.length; i++) { ... } (722-761)
ScanTableLine ==
    /\ tabPc = "scan"
    /\ tabI <= Len(tabLines)
    /\ tabState' = tableScanStep(tabState, tabLines[tabI])
    /\ tabI' = tabI + 1
    /\ UNCHANGED <<tabPc, tabLines, notTab>>

\* the scan returned without the table still open at the end of input
FinishTableScanNoFlush ==
    /\ tabPc = "scan"
    /\ tabI > Len(tabLines)
    /\ tabPc' = "finished"
    /\ UNCHANGED <<tabState, tabLines, tabI, notTab>>

\* the last table, then return (763-768)
FinishTableScan ==
    /\ tabPc = "scan"
    /\ tabI > Len(tabLines)
    /\ tabState' = IF Len(tabState.currentTable) >= 2
                   THEN [tabState EXCEPT !.tables =
                            Append(@, createTableFromLines(tabState.currentTable,
                                                           tabState.tableIndex))]
                   ELSE tabState
    /\ tabPc' = "finished"
    /\ UNCHANGED <<tabLines, tabI, notTab>>

NextTables ==
    \/ ScanTableLine
    \/ FinishTableScan

SpecTables == InitTables /\ [][NextTables]_vars

(***************************************************************************)
(* ContentAnalysisService.extractStructureNodes (184-263)                  *)
(***************************************************************************)
MaxBlocks == 4

RECURSIVE repeat(_, _)
repeat(c, n) == IF n = 0 THEN <<>> ELSE <<c>> \o repeat(c, n - 1)

toUpperCaseChar(c) == IF c = "a" THEN "A" ELSE IF c = "b" THEN "B" ELSE c

toUpperCase(s) == [k \in 1..Len(s) |-> toUpperCaseChar(s[k])]

RECURSIVE leadingHashes(_)
leadingHashes(s) == IF s # <<>> /\ Head(s) = "#" THEN 1 + leadingHashes(Tail(s)) ELSE 0

\* content.match(/^(#{1,6})\s/), then the length and upper-case tests (462-470)
determineHeadingLevel(content) ==
    LET h == leadingHashes(content)
    IN  IF h >= 1 /\ h <= 6 /\ Len(content) > h /\ IsWhitespace(content[h + 1]) THEN h
        ELSE IF Len(content) < 50 /\ toUpperCase(content) = content THEN 1
        ELSE IF Len(content) < 80 THEN 2
        ELSE 3

RECURSIVE countWhitespaceRuns(_)
countWhitespaceRuns(s) ==
    IF s = <<>> THEN 0
    ELSE IF IsWhitespace(Head(s)) THEN 1 + countWhitespaceRuns(skipWhitespace(s))
    ELSE countWhitespaceRuns(Tail(s))

\* text.split(/\s+/).length (97, 120, 140, 166)
wordCountOf(text) == 1 + countWhitespaceRuns(text)

\* content blocks as extractContentBlocks builds them from a structured result
BlockPool ==
    { [type |-> "heading",   content |-> <<"#", " ", "a">>,                page |-> 1],
      [type |-> "heading",   content |-> <<"#", "#", "#", " ", "a">>,      page |-> 1],
      [type |-> "title",     content |-> <<"A", "B">>,                     page |-> 1],
      [type |-> "heading",   content |-> <<"a", "b", " ", "a">>,           page |-> 2],
      [type |-> "heading",   content |-> repeat("a", 101),                 page |-> 1],
      [type |-> "paragraph", content |-> <<"a", " ", "b">>,                page |-> 1],
      [type |-> "list",      content |-> <<"-", " ", "a">>,                page |-> 2] }

\* the block at position k of the argument, with its uuid and word count
makeBlock(b, k) ==
    [id       |-> k,
     type     |-> b.type,
     content  |-> b.content,
     position |-> [page |-> b.page],
     metadata |-> [wordCount |-> wordCountOf(b.content)]]

InitStructure ==
    /\ GenOff
    /\ TabOff
    /\ CtOff
    /\ FigOff
    /\ DrvOff
    /\ ClsOff
    /\ EncOff
    /\ PollOff
    /\ ConOff
    /\ CliOff
    /\ \E bs \in LineLists(BlockPool, MaxBlocks) :
          casBlocks = [k \in 1..Len(bs) |-> makeBlock(bs[k], k)]
    /\ casNodes = <<>>
    /\ parentStack = <<>>
    /\ casK = 0
    /\ casPc = "start"

isHeadingBlock(block) == block.type \in {"title", "heading"}

headingBlocks == SelectSeq(casBlocks, isHeadingBlock)

nonHeadingBlocks == SelectSeq(casBlocks, LAMBDA b : ~isHeadingBlock(b))

RECURSIVE sumWordCount(_)
sumWordCount(blocks) ==
    IF blocks = <<>> THEN 0
    ELSE Head(blocks).metadata.wordCount + sumWordCount(Tail(blocks))

\* node ids are uuids: the root's is fixed, a heading node's is fresh
RootId == 100

freshNodeId(nodes) == RootId + Len(nodes)

\* create the document root node and seed the parent stack (188-211)
CreateRoot ==
    /\ casPc = "start"
    /\ casNodes' = << [id              |-> RootId,
                       type            |-> "document",
                       title           |-> <<"D", "o", "c", "u", "m", "e", "n", "t">>,
                       level           |-> 0,
                       position        |-> [page |-> 1, order |-> 0],
                       parentId        |-> NoValue,
                       childIds        |-> <<>>,
                       contentBlockIds |-> <<>>,
                       metadata        |-> [wordCount  |-> sumWordCount(casBlocks),
                                            importance |-> 100,
                                            keywords   |-> <<>>]] >>
    /\ parentStack' = <<1>>
    /\ casK' = 1
    /\ casPc' = "headings"
    /\ UNCHANGED <<casBlocks, notCas>>

\* while (parentStack.length > level) parentStack.pop() (217-219)
unwind(stack, level) == IF Len(stack) > level THEN SubSeq(stack, 1, level) ELSE stack

\* Math.max(0.1, 1.0 - (level - 1) * 0.2), in hundredths
headingImportance(level) == Max(10, 100 - (level - 1) * 20)

headingNode(block, index, level, parentId, nodes) ==
    [id              |-> freshNodeId(nodes),
     type            |-> IF level = 1 THEN "chapter"
                         ELSE IF level = 2 THEN "section" ELSE "subsection",
     title           |-> substring(block.content, 0, 100),
     level           |-> level,
     position        |-> [page |-> block.position.page, order |-> index],
     parentId        |-> parentId,
     childIds        |-> <<>>,
     contentBlockIds |-> <<block.id>>,
     metadata        |-> [wordCount  |-> block.metadata.wordCount,
                          importance |-> headingImportance(level),
                          keywords   |-> <<>>]]

\* the heading node pushed without being linked into its parent's childIds
HeadingStepUnlinked ==
    /\ casPc = "headings"
    /\ casK <= Len(headingBlocks)
    /\ LET block  == headingBlocks[casK]
           level  == determineHeadingLevel(block.content)
           stack  == unwind(parentStack, level)
           parent == stack[Len(stack)]
           node   == headingNode(block, casK - 1, level, casNodes[parent].id, casNodes)
       IN  /\ casNodes' = Append(casNodes, node)
           /\ parentStack' = Append(stack, Len(casNodes) + 1)
    /\ casK' = casK + 1
    /\ UNCHANGED <<casPc, casBlocks, notCas>>

\* headingBlocks.forEach: one heading block (213-242)
HeadingStep ==
    /\ casPc = "headings"
    /\ casK <= Len(headingBlocks)
    /\ LET block  == headingBlocks[casK]
           level  == determineHeadingLevel(block.content)
           stack  == unwind(parentStack, level)
           parent == stack[Len(stack)]
           node   == headingNode(block, casK - 1, level, casNodes[parent].id, casNodes)
       IN  /\ casNodes' = Append([casNodes EXCEPT ![parent].childIds = Append(@, node.id)],
                                 node)
           /\ parentStack' = Append(stack, Len(casNodes) + 1)
    /\ casK' = casK + 1
    /\ UNCHANGED <<casPc, casBlocks, notCas>>

\* the heading blocks are done: go on to the other blocks (244-247)
HeadingsDone ==
    /\ casPc = "headings"
    /\ casK > Len(headingBlocks)
    /\ casK' = 1
    /\ casPc' = "assign"
    /\ UNCHANGED <<casBlocks, casNodes, parentStack, notCas>>

\* the position in nodes of the node a block is attached to, 0 for none (472-485)
findAppropriateParentNode(block, nodes) ==
    LET candidates == {k \in 1..Len(nodes) :
                          /\ nodes[k].position.page <= block.position.page
                          /\ nodes[k].type # "document"}
        documents  == {k \in 1..Len(nodes) : nodes[k].type = "document"}
    IN  IF candidates = {}
        THEN IF documents = {} THEN 0
             ELSE CHOOSE k \in documents : \A j \in documents : k <= j
        ELSE CHOOSE k \in candidates : \A j \in candidates : j <= k

\* nonHeadingBlocks.forEach: one block (249-256)
AssignStep ==
    /\ casPc = "assign"
    /\ casK <= Len(nonHeadingBlocks)
    /\ LET block == nonHeadingBlocks[casK]
           n     == findAppropriateParentNode(block, casNodes)
       IN  casNodes' = IF n # 0
                       THEN [casNodes EXCEPT
                               ![n].contentBlockIds = Append(@, block.id),
                               ![n].metadata.wordCount = @ + block.metadata.wordCount]
                       ELSE casNodes
    /\ casK' = casK + 1
    /\ UNCHANGED <<casPc, casBlocks, parentStack, notCas>>

\* return nodes (262)
ReturnNodes ==
    /\ casPc = "assign"
    /\ casK > Len(nonHeadingBlocks)
    /\ casPc' = "returned"
    /\ UNCHANGED <<casBlocks, casNodes, parentStack, casK, notCas>>

NextStructure ==
    \/ CreateRoot
    \/ HeadingStep
    \/ HeadingsDone
    \/ AssignStep
    \/ ReturnNodes

SpecStructure == InitStructure /\ [][NextStructure]_vars

(***************************************************************************)
(* ContentAnalysisService.extractTablesFromText / processTextTable         *)
(* (513-643)                                                               *)
(***************************************************************************)
MaxTextLines == 4

countChar(s, c) == Cardinality({k \in 1..Len(s) : s[k] = c})

RECURSIVE countSpaceRuns(_)
\* (line.match(/\s{2,}/g) || []).length
countSpaceRuns(s) ==
    IF s = <<>> THEN 0
    ELSE IF Len(s) >= 2 /\ IsWhitespace(s[1]) /\ IsWhitespace(s[2])
         THEN 1 + countSpaceRuns(skipWhitespace(s))
    ELSE countSpaceRuns(Tail(s))

\* (570-580)
hasConsistentColumnSpacing(line) ==
    /\ wordCountOf(trim(line)) >= 3
    /\ countSpaceRuns(line) >= 2

\* /^\s*\|?[\s\-\|:]+\|?\s*$/
isMarkdownTableSeparator(line) ==
    /\ line # <<>>
    /\ \A k \in 1..Len(line) : IsWhitespace(line[k]) \/ line[k] \in {"-", "|", ":"}

isTextTableLine(trimmedLine) ==
    \/ countChar(trimmedLine, "|") > 1
    \/ countChar(trimmedLine, "\t") > 1
    \/ hasConsistentColumnSpacing(trimmedLine)
    \/ isMarkdownTableSeparator(trimmedLine)

\* the cells of one line for the separator chosen from the first line (594-609)
textTableCells(line, separator) ==
    IF separator = "spaces"
    THEN filterNonBlank(splitSpaces(trim(line)))
    ELSE LET parts   == split(line, separator)
             cells   == [k \in 1..Len(parts) |-> trim(parts[k])]
             shifted == IF separator = "|" /\ cells # <<>> /\ cells[1] = <<>>
                        THEN Tail(cells) ELSE cells
         IN  IF separator = "|" /\ shifted # <<>> /\ shifted[Len(shifted)] = <<>>
             THEN SubSeq(shifted, 1, Len(shifted) - 1) ELSE shifted

\* columns: validRows[0]?.length || 0 (633)
columnsOf(validRows) == IF validRows = <<>> THEN 0 ELSE Len(validRows[1])

processTextTable(tableLines, startIndex) ==
    LET separator == IF includes(tableLines[1], <<"\t">>) THEN "\t"
                     ELSE IF ~includes(tableLines[1], <<"|">>)
                             /\ hasConsistentColumnSpacing(tableLines[1]) THEN "spaces"
                     ELSE "|"
        rows      == [r \in 1..Len(tableLines) |->
                        LET cells == textTableCells(tableLines[r], separator)
                        IN  [c \in 1..Len(cells) |->
                               [value    |-> trim(cells[c]),
                                type     |-> "text",
                                isHeader |-> (r = 1),
                                position |-> [row |-> r - 1, column |-> c - 1]]]]
        validRows == SelectSeq(rows, LAMBDA row : Len(row) >= 2)
    IN  [id        |-> startIndex,
         position  |-> [page |-> 1, x |-> 0, y |-> startIndex * 20,
                        width  |-> Max(300, columnsOf(validRows) * 100),
                        height |-> Len(validRows) * 30 + 40],
         structure |-> [rows      |-> Len(validRows),
                        columns   |-> columnsOf(validRows),
                        hasHeader |-> Len(validRows) > 0,
                        hasFooter |-> FALSE],
         data      |-> validRows,
         metadata  |-> [confidence |-> 70, dataTypes |-> <<"text">>]]

\* one iteration of lines.forEach (523-560); index is 0-based
textTableStep(st, line, index) ==
    LET trimmedLine == trim(line)
        flushed == [tables         |-> Append(st.tables,
                                              processTextTable(st.tableLines, st.tableStartIndex)),
                    tableLines     |-> <<>>,
                    inTable        |-> FALSE,
                    tableStartIndex |-> st.tableStartIndex]
    IN  IF trimmedLine = <<>>
        THEN IF st.inTable /\ Len(st.tableLines) > 1 THEN flushed ELSE st
        ELSE IF isTextTableLine(trimmedLine)
        THEN LET opened == IF ~st.inTable
                           THEN [st EXCEPT !.inTable = TRUE, !.tableLines = <<>>,
                                           !.tableStartIndex = index]
                           ELSE st
             IN  IF ~isMarkdownTableSeparator(trimmedLine)
                 THEN [opened EXCEPT !.tableLines = Append(@, trimmedLine)]
                 ELSE opened
        ELSE IF st.inTable /\ Len(st.tableLines) > 1 THEN flushed
        ELSE st

RECURSIVE textTableScan(_, _, _)
textTableScan(st, ls, index) ==
    IF index >= Len(ls) THEN st
    ELSE textTableScan(textTableStep(st, ls[index + 1], index), ls, index + 1)

serviceExtractTablesFromText(content) ==
    LET st == textTableScan([tables |-> <<>>, tableLines |-> <<>>, inTable |-> FALSE,
                             tableStartIndex |-> 0],
                            split(content, "\n"), 0)
    IN  IF st.inTable /\ Len(st.tableLines) > 1
        THEN Append(st.tables, processTextTable(st.tableLines, st.tableStartIndex))
        ELSE st.tables

TextLines ==
    { <<>>,
      <<"a", "|", "b", "|", "c">>,
      <<"a", "|", "b", "|", "c", "|", "d">>,
      <<"|", "a", "|", "b", "|">>,
      <<"|", "a", "|">>,
      <<"|", "-", "|", "-", "|">>,
      <<"a", " ", " ", "b", " ", " ", "c">>,
      <<"a", "\t", "b", "\t", "c">>,
      <<"c">> }

InitTextTables ==
    /\ GenOff
    /\ TabOff
    /\ CasOff
    /\ FigOff
    /\ DrvOff
    /\ ClsOff
    /\ EncOff
    /\ PollOff
    /\ ConOff
    /\ CliOff
    /\ \E ls \in LineLists(TextLines, MaxTextLines) : ctText = join(ls, <<"\n">>)
    /\ ctTables = <<>>
    /\ ctPc = "start"

\* extractTables on a string content: this.extractTablesFromText(content) (282-287)
ExtractTextTables ==
    /\ ctPc = "start"
    /\ ctTables' = serviceExtractTablesFromText(ctText)
    /\ ctPc' = "returned"
    /\ UNCHANGED <<ctText, notCt>>

NextTextTables == ExtractTextTables

SpecTextTables == InitTextTables /\ [][NextTextTables]_vars

(***************************************************************************)
(* extractFiguresFromText (parse.ts 904-1001), one loop iteration per      *)
(* step, and ContentAnalysisService.extractImageReferencesFromText         *)
(* (378-427) on the same text                                              *)
(***************************************************************************)
MaxFigureLines == 3

\* the /i flag on the letters of "figure" and "image"
foldCase(c) ==
    IF c = "f" THEN "F" ELSE IF c = "i" THEN "I" ELSE IF c = "g" THEN "G"
    ELSE IF c = "u" THEN "U" ELSE IF c = "r" THEN "R" ELSE IF c = "e" THEN "E"
    ELSE IF c = "m" THEN "M" ELSE IF c = "a" THEN "A" ELSE c

includesIgnoreCase(s, sub) ==
    includes([k \in 1..Len(s) |-> foldCase(s[k])], [k \in 1..Len(sub) |-> foldCase(sub[k])])

\* /<word>\s*\d+[<FC>:]/ (with ignoreCase: the /i flag)
matchesNumberedLabel(line, word, ignoreCase) ==
    \E k \in 0..(Len(line) - Len(word)) :
        /\ LET at == SubSeq(line, k + 1, k + Len(word))
           IN  IF ignoreCase THEN includesIgnoreCase(at, word) ELSE at = word
        /\ LET r == skipWhitespace(SubSeq(line, k + Len(word) + 1, Len(line)))
               d == skipDigits(r)
           IN  d # r /\ d # <<>> /\ Head(d) \in {"FC", ":"}

\* imagePatterns (386-393)
matchesImagePattern(trimmedLine) ==
    \/ matchesNumberedLabel(trimmedLine, <<"TU">>, FALSE)
    \/ matchesNumberedLabel(trimmedLine, <<"F", "i", "g", "u", "r", "e">>, TRUE)
    \/ matchesNumberedLabel(trimmedLine, <<"TU", "PIAN">>, FALSE)
    \/ matchesNumberedLabel(trimmedLine, <<"CHA", "TU">>, FALSE)
    \/ includes(trimmedLine, <<"[", "TU", "]">>)
    \/ includesIgnoreCase(trimmedLine, <<"[", "i", "m", "a", "g", "e", "]">>)

\* the record pushed for the line at the 0-based index (397-420); the empty
\* string of imageUrl is written "empty"
imageReference(trimmedLine, index) ==
    [type     |-> "image",
     position |-> [page |-> 1, x |-> 0, y |-> index * 20, width |-> 200, height |-> 150],
     content  |-> [imageUrl    |-> "empty",
                   description |-> trimmedLine,
                   caption     |-> trimmedLine,
                   altText     |-> trimmedLine],
     metadata |-> [confidence    |-> 60,
                   extractedText |-> trimmedLine,
                   colors        |-> <<>>,
                   objects       |-> <<>>,
                   isReference   |-> TRUE]]

RECURSIVE imageReferenceScan(_, _)
\* lines.forEach((line, index) => ...) (382-424)
imageReferenceScan(ls, index) ==
    IF index >= Len(ls) THEN <<>>
    ELSE LET trimmedLine == trim(ls[index + 1])
         IN  (IF matchesImagePattern(trimmedLine)
              THEN <<imageReference(trimmedLine, index)>> ELSE <<>>)
             \o imageReferenceScan(ls, index + 1)

extractImageReferencesFromText(content) == imageReferenceScan(split(content, "\n"), 0)

FigureLines ==
    { <<>>,
      <<"a">>,
      <<"TU">>,
      <<"XI", "TONG", "JIA", "GOU">>,
      <<" ", "RU", "TU", "1", "SUO", "SHI">>,
      <<"LIU", "CHENG", "TU">>,
      <<"JIA", "GOU", "TU", "LIU", "CHENG", "TU">>,
      <<"TU", "BIAO", "SHI", "YI4", "TU">>,
      <<"JIE2", "TU", "TU", "BIAO">>,
      <<"JIE2", "TU">>,
      <<"TU", " ", "2", "FC", "a">>,
      <<"[", "TU", "]">>,
      <<"F", "I", "G", "u", "r", "e", " ", "1", ":">> }

InitFigures ==
    /\ GenOff
    /\ TabOff
    /\ CasOff
    /\ CtOff
    /\ DrvOff
    /\ ClsOff
    /\ EncOff
    /\ PollOff
    /\ ConOff
    /\ CliOff
    /\ \E ls \in LineLists(FigureLines, MaxFigureLines) :
          /\ figLines = split(join(ls, <<"\n">>), "\n")
          /\ refContent = join(ls, <<"\n">>)
    /\ figI = 1
    /\ figures = <<>>
    /\ figPc = "scan"
    /\ refPc = "start"
    /\ refFigures = <<>>

\* one iteration of for (let i = 0; i < lines.length; i++) (909-998);
\* figureIndex is one more than the number of figures pushed
ScanFigureLine ==
    /\ figPc = "scan"
    /\ figI <= Len(figLines)
    /\ figures' = IF foundFigure(trim(figLines[figI]))
                  THEN Append(figures, figureRecord(figLines, figI, Len(figures) + 1))
                  ELSE figures
    /\ figI' = figI + 1
    /\ UNCHANGED <<figPc, figLines, refPc, refContent, refFigures, notFig>>

\* return figures (1000)
ReturnFigures ==
    /\ figPc = "scan"
    /\ figI > Len(figLines)
    /\ figPc' = "returned"
    /\ UNCHANGED <<figLines, figI, figures, refPc, refContent, refFigures, notFig>>

\* extractFigures on a string content (337-340)
ExtractImageReferences ==
    /\ refPc = "start"
    /\ refFigures' = extractImageReferencesFromText(refContent)
    /\ refPc' = "returned"
    /\ UNCHANGED <<figPc, figLines, figI, figures, refContent, notFig>>

NextFigures ==
    \/ ScanFigureLine
    \/ ReturnFigures
    \/ ExtractImageReferences

SpecFigures == InitFigures /\ [][NextFigures]_vars

(***************************************************************************)
(* The line classifier of the aggregation loop (parse.ts 525-551) applied  *)
(* to one trimmed non-empty line                                           *)
(***************************************************************************)
MaxLineLength == 4

LineCharacters == {"DI", "ZHANG", "JIE", ":", "FC", "1", ".", "LIAN", "XI", "a"}

InitClassify ==
    /\ GenOff
    /\ TabOff
    /\ CasOff
    /\ CtOff
    /\ FigOff
    /\ DrvOff
    /\ EncOff
    /\ PollOff
    /\ ConOff
    /\ CliOff
    /\ clsLine \in UNION {[1..n -> LineCharacters] : n \in 1..MaxLineLength}
    /\ clsResult = classify(<<>>)
    /\ clsPc = "start"

\* blockType, nodeType, level and isSpecialLine after the if chain (525-551)
ClassifyLine ==
    /\ clsPc = "start"
    /\ clsResult' = classify(clsLine)
    /\ clsPc' = "classified"
    /\ UNCHANGED <<clsLine, notCls>>

NextClassify == ClassifyLine

SpecClassify == InitClassify /\ [][NextClassify]_vars

(***************************************************************************)
(* The decoding of a text file (parse.ts 332-391), one decoder per step    *)
(***************************************************************************)
\* const encodingsToTry = [...] (356)
encodingsToTry == <<"utf-8", "gbk", "gb2312", "big5", "utf-16le", "utf-16be", "gb18030">>

\* a character matched by the class of CJK ideographs U+4E00..U+9FA5,
\* printable ASCII and white space (366): of the
\* characters of the model all but the full-width colon, the ideographic
\* comma, the replacement character and the C0 control characters
isValidChar(ch) == ch \notin {"FC", "DUN", "REP", "CTL"}

\* (decoded.match(/.../g) || []).length
validCharCount(decoded) == Cardinality({k \in 1..Len(decoded) : isValidChar(decoded[k])})

\* the test of one decode (364-368): validCharRatio > 0.7
decodeAccepted(decoded) ==
    /\ Len(decoded) > 0
    /\ ~includes(decoded, <<"REP">>)
    /\ validCharCount(decoded) * 10 > 7 * Len(decoded)

\* what a decoder can make of the bytes of a file: all characters valid,
\* exactly 70% valid, 60% valid, a replacement character, nothing
DecodedTexts ==
    { repeat("a", 4) \o repeat("DI", 4) \o repeat(" ", 2),
      repeat("a", 4) \o repeat("DI", 3) \o repeat("FC", 3),
      repeat("a", 6) \o repeat("FC", 4),
      <<"a", "REP", "b">>,
      <<>> }

\* const rawBuffer = fs.readFileSync(filePath) (332): detected is what
\* iconv.decode gives with the encoding chardet names, empty when chardet
\* names none, the encoding does not exist or the decode throws; decoded[k]
\* is what iconv.decode gives with encodingsToTry[k]
InitDecode ==
    /\ GenOff
    /\ TabOff
    /\ CasOff
    /\ CtOff
    /\ FigOff
    /\ DrvOff
    /\ ClsOff
    /\ PollOff
    /\ ConOff
    /\ CliOff
    /\ \E det \in {<<>>, <<"a", "FC">>},
          dec \in [1..Len(encodingsToTry) -> DecodedTexts] :
          rawBuffer = [detected |-> det, decoded |-> dec]
    /\ encPc = "detect"
    /\ encI = 1
    /\ encContent = <<>>
    /\ usedEncoding = "none"

\* the decode with the detected encoding (335-353)
DecodeDetected ==
    /\ encPc = "detect"
    /\ encContent' = rawBuffer.detected
    /\ usedEncoding' = IF rawBuffer.detected # <<>> THEN "detected" ELSE usedEncoding
    /\ encPc' = IF rawBuffer.detected = <<>> THEN "loop" ELSE "decoded"
    /\ UNCHANGED <<rawBuffer, encI, notEnc>>

\* one iteration of for (const encoding of encodingsToTry) (358-382)
TryEncoding ==
    /\ encPc = "loop"
    /\ encI <= Len(encodingsToTry)
    /\ LET decoded == rawBuffer.decoded[encI]
       IN  IF decodeAccepted(decoded)
           THEN /\ encContent' = decoded
                /\ usedEncoding' = encodingsToTry[encI]
                /\ encPc' = "final"
                /\ UNCHANGED encI
           ELSE /\ encI' = encI + 1
                /\ encPc' = IF encI = Len(encodingsToTry) THEN "final" ELSE "loop"
                /\ UNCHANGED <<encContent, usedEncoding>>
    /\ UNCHANGED <<rawBuffer, notEnc>>

\* if (!fileContent) fileContent = rawBuffer.toString('utf-8') (386-390):
\* the UTF-8 decode of the same bytes
FinalFallback ==
    /\ encPc = "final"
    /\ IF encContent = <<>>
       THEN /\ encContent' = rawBuffer.decoded[1]
            /\ usedEncoding' = "utf-8 (final fallback)"
       ELSE UNCHANGED <<encContent, usedEncoding>>
    /\ encPc' = "decoded"
    /\ UNCHANGED <<rawBuffer, encI, notEnc>>

NextDecode ==
    \/ DecodeDetected
    \/ TryEncoding
    \/ FinalFallback

SpecDecode == InitDecode /\ [][NextDecode]_vars

(***************************************************************************)
(* EasyDocService.pollParseResult (EasyDocService.ts 141-188)              *)
(***************************************************************************)
MaxPollAttempts == 3

\* what getParseResult resolves to (114-134): the body of the response, with
\* the task_status of its data when there is one, or the failure it builds
\* in its catch
PollResponses ==
    { [success |-> TRUE, errCode |-> NoValue, task_status |-> st] :
          st \in {"SUCCESS", "ERROR", "PENDING", "PROGRESSING", NoValue} }
    \cup { [success |-> FALSE, errCode |-> "GET_RESULT_ERROR", task_status |-> NoValue] }

\* the result made for a task in ERROR (166-171)
parseTaskError ==
    [success |-> FALSE, errCode |-> "PARSE_TASK_ERROR", task_status |-> "ERROR"]

\* the result made after the loop (180-184)
pollTimeout == [success |-> FALSE, errCode |-> "TIMEOUT", task_status |-> NoValue]

\* the state at the call pollParseResult(taskId, {maxAttempts, intervalMs}):
\* attempt = 1 (150)
InitPoll ==
    /\ GenOff
    /\ TabOff
    /\ CasOff
    /\ CtOff
    /\ FigOff
    /\ DrvOff
    /\ ClsOff
    /\ EncOff
    /\ ConOff
    /\ CliOff
    /\ maxAttempts \in 1..MaxPollAttempts
    /\ pollPc = "loop"
    /\ attempt = 1
    /\ pollCalls = 0
    /\ pollSleeps = 0
    /\ pollResponses = <<>>
    /\ pollResult = pollTimeout

\* one attempt that sleeps whenever the task is not finished, also after
\* the last attempt
PollAttemptAlwaysSleeps ==
    /\ pollPc = "loop"
    /\ attempt <= maxAttempts
    /\ \E result \in PollResponses :
          /\ pollCalls' = pollCalls + 1
          /\ pollResponses' = Append(pollResponses, result)
          /\ IF ~result.success \/ result.task_status = "SUCCESS"
             THEN /\ pollResult' = result
                  /\ pollPc' = "returned"
             ELSE IF result.task_status = "ERROR"
             THEN /\ pollResult' = parseTaskError
                  /\ pollPc' = "returned"
             ELSE /\ pollPc' = "sleep"
                  /\ UNCHANGED pollResult
    /\ UNCHANGED <<maxAttempts, attempt, pollSleeps, notPoll>>

\* one iteration of the loop up to its sleep: await getParseResult and the
\* tests of its result (150-177)
PollAttempt ==
    /\ pollPc = "loop"
    /\ attempt <= maxAttempts
    /\ \E result \in PollResponses :
          /\ pollCalls' = pollCalls + 1
          /\ pollResponses' = Append(pollResponses, result)
          /\ IF ~result.success \/ result.task_status = "SUCCESS"
             THEN /\ pollResult' = result
                  /\ pollPc' = "returned"
                  /\ UNCHANGED attempt
             ELSE IF result.task_status = "ERROR"
             THEN /\ pollResult' = parseTaskError
                  /\ pollPc' = "returned"
                  /\ UNCHANGED attempt
             ELSE IF attempt < maxAttempts
             THEN /\ pollPc' = "sleep"
                  /\ UNCHANGED <<pollResult, attempt>>
             ELSE /\ attempt' = attempt + 1
                  /\ UNCHANGED <<pollResult, pollPc>>
    /\ UNCHANGED <<maxAttempts, pollSleeps, notPoll>>

\* await this.sleep(intervalMs) resolves and the loop goes on (176, 150)
PollSleep ==
    /\ pollPc = "sleep"
    /\ pollSleeps' = pollSleeps + 1
    /\ attempt' = attempt + 1
    /\ pollPc' = "loop"
    /\ UNCHANGED <<maxAttempts, pollCalls, pollResponses, pollResult, notPoll>>

\* the loop ended: the TIMEOUT result (180-184)
PollTimeout ==
    /\ pollPc = "loop"
    /\ attempt > maxAttempts
    /\ pollResult' = pollTimeout
    /\ pollPc' = "returned"
    /\ UNCHANGED <<maxAttempts, attempt, pollCalls, pollSleeps, pollResponses, notPoll>>

NextPoll ==
    \/ PollAttempt
    \/ PollSleep
    \/ PollTimeout

\* the awaited getParseResult and sleep settle
SpecPoll == InitPoll /\ [][NextPoll]_vars /\ WF_vars(NextPoll)

(***************************************************************************)
(* Concurrent requests: uploads, POST /api/parse, DELETE, and their        *)
(* background runs, one step per stretch of code between two awaits        *)
(***************************************************************************)
MaxUploads == 1

MaxParseRequests == 1

MaxDeleteRequests == 1

\* uploadedDocuments.findIndex(doc => doc._id === id), 1-based, 0 for -1
findIndex(list, id) ==
    IF \E k \in 1..Len(list) : heap[list[k]]._id = id
    THEN CHOOSE k \in 1..Len(list) :
            /\ heap[list[k]]._id = id
            /\ \A j \in 1..(k - 1) : heap[list[j]]._id # id
    ELSE 0

\* uploadedDocuments.find(doc => doc._id === id): the object, 0 for undefined
find(list, id) == IF findIndex(list, id) = 0 THEN 0 ELSE list[findIndex(list, id)]

\* the writer found its document and left its status as it was
keepStatus(h, obj) == h

\* document.status = 'completed' on the object a writer holds
\* (parse.ts 207, 675, 1044), nothing for undefined
complete(h, obj) == IF obj = 0 THEN h ELSE [h EXCEPT ![obj].status = "completed"]

\* uploadedDocuments.splice(documentIndex, 1)
splice(list, index) ==
    [k \in 1..(Len(list) - (IF index <= Len(list) THEN 1 ELSE 0)) |->
        IF k < index THEN list[k] ELSE list[k + 1]]

\* the parse tasks created so far
taskRuns == {r \in 1..Len(backgroundRuns) : backgroundRuns[r].kind = "task"}

\* the server has started: no document, no task (part_006 line 6, parse.ts 9)
InitConcurrent ==
    /\ GenOff
    /\ TabOff
    /\ CasOff
    /\ CtOff
    /\ FigOff
    /\ DrvOff
    /\ ClsOff
    /\ EncOff
    /\ PollOff
    /\ CliOff
    /\ heap = <<>>
    /\ uploadedDocuments = <<>>
    /\ backgroundRuns = <<>>
    /\ deleteRequests = <<>>
    /\ keyConfigured \in BOOLEAN

\* POST /api/upload (upload.ts 77-127): _id is Date.now(), the same as
\* the one of the upload before it or later
Upload ==
    /\ Len(heap) < MaxUploads
    /\ \E ext \in {".txt", ".docx"},
          id \in (IF heap = <<>> THEN {1}
                  ELSE {heap[Len(heap)]._id, heap[Len(heap)]._id + 1}) :
          /\ heap' = Append(heap, [_id |-> id, status |-> "parsing", ext |-> ext])
          /\ uploadedDocuments' = Append(uploadedDocuments, Len(heap) + 1)
          /\ backgroundRuns' = Append(backgroundRuns,
                 [kind |-> "upload", documentId |-> id, document |-> Len(heap) + 1,
                  status |-> NoValue, pc |-> "scheduled", found |-> 0])
    /\ UNCHANGED <<deleteRequests, keyConfigured, notCon>>

\* POST /api/parse for an id that is found (parse.ts 23-85)
RequestParse ==
    /\ Cardinality(taskRuns) < MaxParseRequests
    /\ \E h \in 1..Len(heap) :
          LET id == heap[h]._id
          IN  /\ find(uploadedDocuments, id) # 0
              /\ backgroundRuns' = Append(backgroundRuns,
                     [kind |-> "task", documentId |-> id,
                      document |-> find(uploadedDocuments, id),
                      status |-> "PENDING", pc |-> "scheduled", found |-> 0])
    /\ UNCHANGED <<heap, uploadedDocuments, deleteRequests, keyConfigured, notCon>>

\* the run after its awaited generator or API call settled: the
\* continuation runs before any other callback, parseDocumentAsync returns
\* and the task becomes SUCCESS (parse.ts 127-133, 153-158, 166-171, 180-185)
finished(run) ==
    [run EXCEPT !.pc = "finished", !.found = 0,
                !.status = IF run.kind = "task" THEN "SUCCESS" ELSE @]

\* updateDocumentWithIntelligentSampleData up to its first await
\* (parse.ts 238-275, and to 679 or to the catch for a text file): the
\* value of heap and of the run after it
generatorStart(run) ==
    LET doc == find(uploadedDocuments, run.documentId)
    IN  IF doc = 0
        THEN [heap |-> heap, run |-> finished(run)]
        ELSE IF heap[run.document].ext = ".txt"
        THEN [heap |-> complete(heap, doc), run |-> finished(run)]
        ELSE [heap |-> heap,
              run  |-> [run EXCEPT !.pc = "awaitExtract", !.found = doc]]

\* the setImmediate callback: parseDocumentAsync (upload.ts 148-166) or
\* executeParsingTask (parse.ts 101-145) up to its first await
BeginRun(r) ==
    /\ backgroundRuns[r].pc = "scheduled"
    /\ LET run == IF backgroundRuns[r].kind = "task"
                  THEN [backgroundRuns[r] EXCEPT !.status = "PROGRESSING"]
                  ELSE backgroundRuns[r]
       IN  IF keyConfigured
           THEN /\ backgroundRuns' = [backgroundRuns EXCEPT ![r] = [run EXCEPT !.pc = "awaitApi"]]
                /\ UNCHANGED heap
           ELSE /\ backgroundRuns' = [backgroundRuns EXCEPT ![r] = generatorStart(run).run]
                /\ heap' = generatorStart(run).heap
    /\ UNCHANGED <<uploadedDocuments, deleteRequests, keyConfigured, notCon>>

\* executeParsingTask throws before the key is tested (parse.ts 116-118, 187-197)
RunFails(r) ==
    /\ backgroundRuns[r].pc = "scheduled"
    /\ backgroundRuns[r].kind = "task"
    /\ backgroundRuns' = [backgroundRuns EXCEPT ![r].status = "FAILED", ![r].pc = "finished"]
    /\ UNCHANGED <<heap, uploadedDocuments, deleteRequests, keyConfigured, notCon>>

\* parseResult.success && parseResult.data: updateDocumentWithParseResult
\* and, for a task, SUCCESS (parse.ts 147-158, 203-214, upload.ts 168-170)
ApiSucceeds(r) ==
    /\ backgroundRuns[r].pc = "awaitApi"
    /\ heap' = complete(heap, find(uploadedDocuments, backgroundRuns[r].documentId))
    /\ backgroundRuns' = [backgroundRuns EXCEPT ![r] = finished(@)]
    /\ UNCHANGED <<uploadedDocuments, deleteRequests, keyConfigured, notCon>>

\* the API fails or rejects: the generator is called (parse.ts 159-179,
\* upload.ts 171-184)
ApiFails(r) ==
    /\ backgroundRuns[r].pc = "awaitApi"
    /\ backgroundRuns' = [backgroundRuns EXCEPT ![r] = generatorStart(backgroundRuns[r]).run]
    /\ heap' = generatorStart(backgroundRuns[r]).heap
    /\ UNCHANGED <<uploadedDocuments, deleteRequests, keyConfigured, notCon>>

\* mammoth.extractRawText resolves: the text is long enough and the
\* document found at the start is written (parse.ts 271-273, 398-679), or
\* it is short and convertToHtml is awaited (277-279)
ExtractSettles(r) ==
    /\ backgroundRuns[r].pc = "awaitExtract"
    /\ \/ /\ heap' = complete(heap, backgroundRuns[r].found)
          /\ backgroundRuns' = [backgroundRuns EXCEPT ![r] = finished(@)]
       \/ /\ backgroundRuns' = [backgroundRuns EXCEPT ![r].pc = "awaitHtml"]
          /\ UNCHANGED heap
    /\ UNCHANGED <<uploadedDocuments, deleteRequests, keyConfigured, notCon>>

\* convertToHtml settles: the text is written to the document found at the
\* start (280-292, 398-679)
HtmlSettles(r) ==
    /\ backgroundRuns[r].pc = "awaitHtml"
    /\ heap' = complete(heap, backgroundRuns[r].found)
    /\ backgroundRuns' = [backgroundRuns EXCEPT ![r] = finished(@)]
    /\ UNCHANGED <<uploadedDocuments, deleteRequests, keyConfigured, notCon>>

\* the extraction rejects or the text is empty: the catch looks the
\* document up again for updateDocumentWithBasicSampleData (304-307,
\* 411-414, 683-688, 1040-1044)
GeneratorCatches(r) ==
    /\ backgroundRuns[r].pc \in {"awaitExtract", "awaitHtml"}
    /\ heap' = complete(heap, find(uploadedDocuments, backgroundRuns[r].documentId))
    /\ backgroundRuns' = [backgroundRuns EXCEPT ![r] = finished(@)]
    /\ UNCHANGED <<uploadedDocuments, deleteRequests, keyConfigured, notCon>>

\* DELETE /api/documents/:id up to await fs.unlink (part_006 298-324)
DeleteBegins ==
    /\ Len(deleteRequests) < MaxDeleteRequests
    /\ \E h \in 1..Len(heap) :
          /\ findIndex(uploadedDocuments, heap[h]._id) # 0
          /\ deleteRequests' = Append(deleteRequests,
                 [documentIndex |-> findIndex(uploadedDocuments, heap[h]._id),
                  pc |-> "awaitUnlink"])
    /\ UNCHANGED <<heap, uploadedDocuments, backgroundRuns, keyConfigured, notCon>>

\* uploadedDocuments.splice(documentIndex, 1) (part_006 331-332)
DeleteSplices(d) ==
    /\ deleteRequests[d].pc = "awaitUnlink"
    /\ uploadedDocuments' = splice(uploadedDocuments, deleteRequests[d].documentIndex)
    /\ deleteRequests' = [deleteRequests EXCEPT ![d].pc = "responded"]
    /\ UNCHANGED <<heap, backgroundRuns, keyConfigured, notCon>>

NextConcurrent ==
    \/ Upload
    \/ RequestParse
    \/ \E r \in 1..Len(backgroundRuns) : BeginRun(r)
    \/ \E r \in 1..Len(backgroundRuns) : RunFails(r)
    \/ \E r \in 1..Len(backgroundRuns) : ApiSucceeds(r)
    \/ \E r \in 1..Len(backgroundRuns) : ApiFails(r)
    \/ \E r \in 1..Len(backgroundRuns) : ExtractSettles(r)
    \/ \E r \in 1..Len(backgroundRuns) : HtmlSettles(r)
    \/ \E r \in 1..Len(backgroundRuns) : GeneratorCatches(r)
    \/ DeleteBegins
    \/ \E d \in 1..Len(deleteRequests) : DeleteSplices(d)

SpecConcurrent == InitConcurrent /\ [][NextConcurrent]_vars

(***************************************************************************)
(* The frontend ApiService.pollParseResult (part_017 184-235) polling the  *)
(* task of executeParsingTask through GET /api/parse/:taskId/status        *)
(***************************************************************************)
MaxClientAttempts == 2

\* the state after POST /api/upload, with the frontend about to poll the
\* task that POST /api/parse will create
InitClient ==
    /\ \E raw \in TaskTexts, ext \in {".txt", ".docx"} :
          file = [ext |-> ext, readable |-> TRUE, raw |-> raw]
    /\ docPresent = TRUE
    /\ delPc = "none"
    /\ document = [status |-> "parsing", contentBlocks |-> <<>>, structureNodes |-> <<>>,
                   tables |-> <<>>, figures |-> <<>>]
    /\ pc = "off"
    /\ InitLocals
    /\ TabOff
    /\ CasOff
    /\ CtOff
    /\ FigOff
    /\ ClsOff
    /\ EncOff
    /\ PollOff
    /\ ConOff
    /\ apiKey \in BOOLEAN
    /\ drvPc = "parseDocumentAsync"
    /\ task = "none"
    /\ easyDoc = [constructed |-> FALSE, called |-> FALSE]
    /\ firstRun = <<>>
    /\ clientPc = "loop"
    /\ clientMaxAttempts \in 1..MaxClientAttempts
    /\ clientAttempt = 1
    /\ statusSeen = <<>>
    /\ clientResult = [success |-> FALSE, code |-> NoValue]

\* GET /api/parse/:taskId/status for the task (parse.ts 1081-1118): the
\* data.status of the response is the status of the task
statusResponse == [success |-> TRUE, status |-> task]

\* one iteration of the loop up to its sleep: await getParseStatus and the
\* tests of the status (part_017 194-226)
ClientPoll ==
    /\ clientPc = "loop"
    /\ clientAttempt <= clientMaxAttempts
    /\ task # "none"
    /\ LET statusResult == statusResponse
       IN  /\ statusSeen' = Append(statusSeen, statusResult.status)
           /\ IF ~statusResult.success
              THEN /\ clientResult' = [success |-> FALSE, code |-> "STATUS_ERROR"]
                   /\ clientPc' = "returned"
                   /\ UNCHANGED clientAttempt
              ELSE IF statusResult.status = "SUCCESS"
              THEN /\ clientPc' = "awaitResult"
                   /\ UNCHANGED <<clientResult, clientAttempt>>
              ELSE IF statusResult.status = "ERROR"
              THEN /\ clientResult' = [success |-> FALSE, code |-> "PARSE_TASK_ERROR"]
                   /\ clientPc' = "returned"
                   /\ UNCHANGED clientAttempt
              ELSE IF clientAttempt < clientMaxAttempts
              THEN /\ clientPc' = "sleep"
                   /\ UNCHANGED <<clientResult, clientAttempt>>
              ELSE /\ clientAttempt' = clientAttempt + 1
                   /\ UNCHANGED <<clientResult, clientPc>>
    /\ UNCHANGED <<clientMaxAttempts, notCli>>

\* return await this.getParseResult(taskId) (part_017 208; parse.ts 1135-1160)
ClientGetsResult ==
    /\ clientPc = "awaitResult"
    /\ clientResult' = [success |-> TRUE, code |-> NoValue]
    /\ clientPc' = "returned"
    /\ UNCHANGED <<clientMaxAttempts, clientAttempt, statusSeen, notCli>>

\* await this.sleep(intervalMs) resolves and the loop goes on (part_017 224, 194)
ClientSleep ==
    /\ clientPc = "sleep"
    /\ clientAttempt' = clientAttempt + 1
    /\ clientPc' = "loop"
    /\ UNCHANGED <<clientMaxAttempts, statusSeen, clientResult, notCli>>

\* the loop ended: the TIMEOUT result (part_017 228-234)
ClientTimeout ==
    /\ clientPc = "loop"
    /\ clientAttempt > clientMaxAttempts
    /\ clientResult' = [success |-> FALSE, code |-> "TIMEOUT"]
    /\ clientPc' = "returned"
    /\ UNCHANGED <<clientMaxAttempts, clientAttempt, statusSeen, notCli>>

NextClient ==
    \/ NextParse
    \/ ClientPoll
    \/ ClientGetsResult
    \/ ClientSleep
    \/ ClientTimeout

SpecClient == InitClient /\ [][NextClient]_vars

(***************************************************************************)
(* Properties of the fallback generator                                    *)
(***************************************************************************)
\* the trimmed non-blank lines of a text, in order
nonBlankLines(text) == mapTrimFilter(split(text, "\n"))

RECURSIVE Partitioned(_, _)
\* the blocks are, in order, consecutive groups of the lines, each group
\* joined by single spaces, every line in exactly one group
Partitioned(blocks, ls) ==
    IF blocks = <<>> THEN ls = <<>>
    ELSE \E n \in 1..Len(ls) :
            /\ Head(blocks).content = join(SubSeq(ls, 1, n), <<" ">>)
            /\ Partitioned(Tail(blocks), SubSeq(ls, n + 1, Len(ls)))

\* the generator ran to its document update and the document is still stored
Generated == pc = "done" /\ docPresent

IsScenarioA ==
    /\ Len(lines) = 3
    /\ isChapterLine(trim(lines[1]))
    /\ trim(lines[2]) = <<>>
    /\ trim(lines[3]) # <<>>
    /\ ~classify(trim(lines[3])).isSpecialLine

\* C2 as stated (Scenario A): a chapter heading, a blank line and a prose
\* line give a title block with the heading, a paragraph block with the
\* prose, and two structure nodes, a root and a chapter.
ScenarioAOriginal ==
    (Generated /\ IsScenarioA) =>
        /\ Len(document.contentBlocks) = 2
        /\ document.contentBlocks[1].type = "title"
        /\ document.contentBlocks[1].content = trim(lines[1])
        /\ document.contentBlocks[2].type = "paragraph"
        /\ document.contentBlocks[2].content = trim(lines[3])
        /\ Len(document.structureNodes) = 2
        /\ \E r, c \in 1..2 :
              /\ document.structureNodes[r].level = 0
              /\ document.structureNodes[c].type = "chapter"

\* C2 amended: a chapter heading, a blank line and a prose line are three
\* lines, so the text takes the short-document branch: one paragraph block
\* holding the whole trimmed text (heading and prose) and one level-0
\* paragraph node referring to it.
ScenarioAShortBranch ==
    (Generated /\ IsScenarioA) =>
        /\ Len(document.contentBlocks) = 1
        /\ document.contentBlocks[1].type = "paragraph"
        /\ includes(document.contentBlocks[1].content, trim(lines[1]))
        /\ includes(document.contentBlocks[1].content, trim(lines[3]))
        /\ Len(document.structureNodes) = 1
        /\ document.structureNodes[1].type = "paragraph"
        /\ document.structureNodes[1].level = 0
        /\ document.structureNodes[1].contentBlockIds = <<document.contentBlocks[1].id>>

ScenarioAWitness == Generated /\ IsScenarioA

\* C3 (short-document bypass): a cleaned, non-empty text of at most three
\* lines gives exactly one block, a paragraph holding the whole trimmed
\* text, and exactly one node: no line is classified or aggregated.
ShortDocumentBypass ==
    (Generated /\ Len(split(fileContent, "\n")) <= 3) =>
        /\ Len(document.contentBlocks) = 1
        /\ document.contentBlocks[1].type = "paragraph"
        /\ document.contentBlocks[1].content = trim(fileContent)
        /\ Len(document.structureNodes) = 1
        /\ document.structureNodes[1].type = "paragraph"

\* Scenario D: two non-blank lines, one of them a special line, in one block
ShortDocumentWitness ==
    /\ Generated
    /\ Len(split(fileContent, "\n")) = 2
    /\ Len(nonBlankLines(fileContent)) = 2
    /\ classify(trim(lines[2])).isSpecialLine
    /\ fileContent # trim(fileContent)
    /\ Len(document.contentBlocks) = 1

\* C4 (failure substitution): after a decode failure or an empty cleaned
\* content the call ends normally (it is never left with an exception), and
\* the document, if still stored, is completed with exactly the two
\* basic-sample blocks, a title then a paragraph.
FailureSubstitution ==
    /\ pc # "rejected"
    /\ (pc = "substituted" /\ docPresent) =>
          /\ document.status = "completed"
          /\ Len(document.contentBlocks) = 2
          /\ document.contentBlocks[1].type = "title"
          /\ document.contentBlocks[2].type = "paragraph"
          /\ document.contentBlocks = basicSampleDocument.contentBlocks

\* an all-whitespace text that was read and cleaned, then substituted
FailureSubstitutionWitness ==
    /\ pc = "substituted"
    /\ docPresent
    /\ file.readable
    /\ file.raw # <<>>
    /\ trim(fileContent) = <<>>
    /\ document.status = "completed"

\* the file was missing or unreadable when the parse ran
ParsedUnreadableFile ==
    /\ pc \in {"done", "substituted"}
    /\ docPresent
    /\ delPc = "none"
    /\ ~file.readable

\* C5: a parse of a missing or unreadable source file ends with the
\* document's status failed, not with a substituted sample document.
MissingFileFails ==
    ParsedUnreadableFile =>
        /\ document.status = "failed"
        /\ document.contentBlocks # basicSampleDocument.contentBlocks

\* C6: the structure nodes written by the generator have exactly one root
\* (level 0, no parentId), and every other node has a parentId that names a
\* node of the list.
OneRootAndParents ==
    Generated =>
        LET ns    == document.structureNodes
            roots == {k \in 1..Len(ns) : ns[k].level = 0 /\ ns[k].parentId = NoValue}
        IN  /\ Cardinality(roots) = 1
            /\ \A k \in (1..Len(ns)) \ roots :
                  \E p \in 1..Len(ns) : ns[p].id = ns[k].parentId

(***************************************************************************)
(* Properties of the table extractor of parse.ts                           *)
(***************************************************************************)
\* C8 (table row integrity): every row kept in the data of a table built by
\* createTableFromLines has at least 2 cells.
TableRowIntegrity ==
    \A t \in 1..Len(tabState.tables) :
        \A r \in 1..Len(tabState.tables[t].data) :
            Len(tabState.tables[t].data[r]) >= 2

\* a '|' line whose n parts are all non-empty, without table cue or colon
IsPlainPipeLine(rawLine, n) ==
    LET line  == trim(rawLine)
        parts == split(line, "|")
    IN  /\ includes(line, <<"|">>)
        /\ Len(parts) = n
        /\ \A k \in 1..Len(parts) : trim(parts[k]) # <<>>
        /\ ~isTableTitle(line)
        /\ \A k \in 1..Len(line) : line[k] \notin {"BIAO", "FC", ":"}

\* the input is a run of k lines of n cells, then only blank lines
IsPipeRun(k, n) ==
    /\ k <= Len(tabLines)
    /\ \A j \in 1..k : IsPlainPipeLine(tabLines[j], n)
    /\ \A j \in (k + 1)..Len(tabLines) : trim(tabLines[j]) = <<>>

\* C10 (Scenario B): a run of k >= 2 pipe-delimited lines of n >= 2
\* non-empty cells each, without table cue or colon, ended by a blank line or
\* by the end of input, gives exactly one table with rows = k and
\* columns = n whose header cells are exactly the cells of row 0.
ScenarioB ==
    \A k \in 2..Len(tabLines), n \in 2..maxRowLength(tabLines) :
        (tabPc = "finished" /\ IsPipeRun(k, n)) =>
            /\ Len(tabState.tables) = 1
            /\ LET t == tabState.tables[1]
               IN  /\ t.structure.rows = k
                   /\ t.structure.columns = n
                   /\ Len(t.data) = k
                   /\ \A r \in 1..Len(t.data) :
                         /\ Len(t.data[r]) = n
                         /\ \A c \in 1..n : t.data[r][c].isHeader = (r = 1)

\* three lines of three cells closed by the end of input
ScenarioBWitness ==
    /\ tabPc = "finished"
    /\ IsPipeRun(3, 3)
    /\ Len(tabLines) = 3
    /\ Len(tabState.tables) = 1

(***************************************************************************)
(* Properties of ContentAnalysisService                                    *)
(***************************************************************************)
RECURSIVE occurrences(_, _)
occurrences(seq, x) ==
    IF seq = <<>> THEN 0
    ELSE (IF Head(seq) = x THEN 1 ELSE 0) + occurrences(Tail(seq), x)

\* C7 (tree validity): in the list extractStructureNodes returns, every node
\* but the root has a parentId that is the id of a node of the list, and
\* that parent's childIds holds the node's id exactly once.
TreeValidity ==
    casPc = "returned" =>
        \A k \in 2..Len(casNodes) :
            \E p \in 1..Len(casNodes) :
                /\ casNodes[p].id = casNodes[k].parentId
                /\ occurrences(casNodes[p].childIds, casNodes[k].id) = 1

\* a heading nested under a heading, a heading back under the root, and a
\* block attached to a heading node
TreeValidityWitness ==
    /\ casPc = "returned"
    /\ Len(casNodes) = 4
    /\ casNodes[3].parentId = casNodes[2].id
    /\ casNodes[4].parentId = RootId
    /\ Len(casNodes[4].contentBlockIds) = 2

\* C9: in every table built by processTextTable, structure.columns is the
\* maximum length of the rows kept in data, ragged rows included.
ColumnsIsMaxRowLength ==
    \A t \in 1..Len(ctTables) :
        ctTables[t].structure.columns = maxRowLength(ctTables[t].data)

(***************************************************************************)
(* Properties of the figure extractors                                     *)
(***************************************************************************)
\* the type keywords in the order of their priority
FigureTypeKeywords ==
    << [type |-> "flowchart",    keyword |-> <<"LIU", "CHENG", "TU">>],
       [type |-> "architecture", keyword |-> <<"JIA", "GOU", "TU">>],
       [type |-> "diagram",      keyword |-> <<"SHI", "YI4", "TU">>],
       [type |-> "chart",        keyword |-> <<"TU", "BIAO">>],
       [type |-> "screenshot",   keyword |-> <<"JIE2", "TU">>] >>

firstKeywordType(line) ==
    LET hits == {k \in 1..Len(FigureTypeKeywords) : includes(line, FigureTypeKeywords[k].keyword)}
    IN  IF hits = {} THEN "image"
        ELSE FigureTypeKeywords[CHOOSE k \in hits : \A h \in hits : k <= h].type

\* the trimmed lines scanned so far that hold a figure reference, in order
scannedReferences ==
    SelectSeq([k \in 1..(figI - 1) |-> trim(figLines[k])], LAMBDA l : foundFigure(l))

\* C11: extractFiguresFromText has pushed exactly one figure for each scanned
\* line that matches a figure pattern, in line order and none for another
\* line, and the type of each is the first of flowchart, architecture,
\* diagram, chart, screenshot whose keyword occurs in its line, else image.
OneFigurePerReference ==
    figPc \in {"scan", "returned"} =>
        /\ Len(figures) = Len(scannedReferences)
        /\ \A k \in 1..Len(figures) :
              /\ figures[k].content.caption = scannedReferences[k]
              /\ figures[k].type = firstKeywordType(scannedReferences[k])
              /\ figures[k].id = k

OneFigurePerReferenceWitness ==
    /\ figPc = "returned"
    /\ Len(figures) = 2
    /\ Len(figLines) = 3
    /\ \E k \in 1..2 :
          /\ figures[k].type = "flowchart"
          /\ includes(figures[k].content.caption, <<"JIA", "GOU", "TU">>)
    /\ \E k \in 1..2 : figures[k].type = "image"

\* C12: every figure marked isReference, from extractFiguresFromText and from
\* extractImageReferencesFromText, has no imageUrl field at all: the field
\* is absent, neither null nor the empty string nor a URL.
ReferenceFiguresOmitImageUrl ==
    /\ \A k \in 1..Len(figures) :
          figures[k].metadata.isReference => figures[k].content.imageUrl = NoValue
    /\ \A k \in 1..Len(refFigures) :
          refFigures[k].metadata.isReference => refFigures[k].content.imageUrl = NoValue

(***************************************************************************)
(* Properties of the callers of the generator                              *)
(***************************************************************************)
\* content blocks with the random confidence of the paragraph blocks erased
eraseConfidence(blocks) ==
    [k \in 1..Len(blocks) |->
        IF blocks[k].type = "paragraph"
        THEN [blocks[k] EXCEPT !.metadata.confidence = 0]
        ELSE blocks[k]]

\* the generator was run again by POST /api/parse and, as in the first run,
\* reached its document update from the same decoded text
GeneratedTwice ==
    /\ firstRun # <<>>
    /\ firstRun[1].outcome = "done"
    /\ drvPc = "taskAwaitFallback"
    /\ pc = "done"
    /\ docPresent
    /\ firstRun[1].fileContent = fileContent

\* C13: a second run of the fallback generator on the same file for the same
\* document leaves the same contentBlocks, structureNodes and tables as the
\* first run, ids included, but for the confidence of paragraph blocks.
RerunIsIdempotent ==
    GeneratedTwice =>
        /\ eraseConfidence(document.contentBlocks)
              = eraseConfidence(firstRun[1].document.contentBlocks)
        /\ document.structureNodes = firstRun[1].document.structureNodes
        /\ document.tables = firstRun[1].document.tables

RerunIsIdempotentWitness ==
    /\ GeneratedTwice
    /\ Len(document.contentBlocks) >= 3
    /\ document.tables # <<>>
    /\ \E k \in 1..Len(document.contentBlocks) :
          /\ document.contentBlocks[k].type = "paragraph"
          /\ document.contentBlocks[k].metadata.confidence
               # firstRun[1].document.contentBlocks[k].metadata.confidence

\* C14: without an API key neither caller constructs the EasyDoc client or
\* calls parseDocument or waits for the API, and when a caller has returned
\* the stored document is completed, written by the generator.
NoKeyUsesOnlyGenerator ==
    ~apiKey /\ drvPc # "off" =>
        /\ ~easyDoc.constructed
        /\ ~easyDoc.called
        /\ drvPc \notin {"uploadAwaitApi", "taskAwaitApi"}
        /\ drvPc \in {"uploadDone", "executeParsingTask", "taskDone"} /\ docPresent =>
              /\ document.status = "completed"
              /\ pc \in {"done", "substituted"}

NoKeyUsesOnlyGeneratorWitness ==
    /\ ~apiKey
    /\ drvPc = "taskDone"
    /\ task = "SUCCESS"
    /\ docPresent
    /\ firstRun # <<>>
    /\ firstRun[1].outcome = "done"
    /\ pc = "substituted"

(***************************************************************************)
(* Properties of the line classifier                                       *)
(***************************************************************************)
\* the results of the four rules in the order of their priority
RuleResults ==
    << [blockType |-> "title",     nodeType |-> "chapter", level |-> 1, isSpecialLine |-> TRUE],
       [blockType |-> "subtitle",  nodeType |-> "section", level |-> 2, isSpecialLine |-> TRUE],
       [blockType |-> "list_item", nodeType |-> "list",    level |-> 3, isSpecialLine |-> TRUE],
       [blockType |-> "contact",   nodeType |-> "contact", level |-> 2, isSpecialLine |-> TRUE] >>

\* the rules a line matches, by priority number
matchedRules(line) ==
    {r \in 1..4 :
        \/ r = 1 /\ includes(line, <<"DI">>)
                 /\ (includes(line, <<"ZHANG">>) \/ includes(line, <<"JIE">>))
        \/ r = 2 /\ line # <<>> /\ line[Len(line)] \in {":", "FC"}
        \/ r = 3 /\ \E n \in 1..(Len(line) - 1) :
                      /\ \A k \in 1..n : IsDigit(line[k])
                      /\ line[n + 1] = "."
        \/ r = 4 /\ \/ includes(line, <<"LIAN", "XI">>) \/ includes(line, <<"WANG", "ZHAN">>)
                    \/ includes(line, <<"YOU", "XIANG">>) \/ includes(line, <<"DIAN", "HUA">>)}

\* C15: the classification of a line is the result of the rule of highest
\* priority that the line matches (chapter marker, trailing colon, leading
\* number and period, contact cue), and plain prose when it matches none.
ClassificationByPriority ==
    clsPc = "classified" =>
        LET m == matchedRules(clsLine)
        IN  IF m = {}
            THEN /\ ~clsResult.isSpecialLine
                 /\ clsResult.blockType = "paragraph"
            ELSE clsResult = RuleResults[CHOOSE r \in m : \A q \in m : r <= q]

ClassificationByPriorityWitness ==
    /\ clsPc = "classified"
    /\ matchedRules(clsLine) = {2, 3}
    /\ clsResult.blockType = "subtitle"

(***************************************************************************)
(* Properties of the paragraph aggregation                                 *)
(***************************************************************************)
\* blank, special or prose
lineKind(k) ==
    IF trim(lines[k]) = <<>> THEN "blank"
    ELSE IF classify(trim(lines[k])).isSpecialLine THEN "special"
    ELSE "prose"

\* line k is the last line of a maximal run of prose lines
isRunEnd(k) == lineKind(k) = "prose" /\ (k = Len(lines) \/ lineKind(k + 1) # "prose")

\* the first line of the run of prose lines that holds line k
runStart(k) ==
    CHOOSE s \in 1..k :
        /\ \A j \in s..k : lineKind(j) = "prose"
        /\ s = 1 \/ lineKind(s - 1) # "prose"

\* the trimmed lines s..k joined by single spaces
runText(s, k) == join([j \in 1..(k - s + 1) |-> trim(lines[s + j - 1])], <<" ">>)

\* the loop has taken the lines before i; the loop path is the one taken
OnLinePath == pc \in {"loop", "update", "done"} /\ ~isShortDocument(lines, fileContent)

RECURSIVE expectedBlocks(_)
\* type and content of the blocks due for the lines 1..k, in document order:
\* one per special line taken, one per run whose end has been passed
expectedBlocks(k) ==
    IF k = 0 THEN <<>>
    ELSE expectedBlocks(k - 1) \o
         (IF lineKind(k) = "special" /\ k < i
          THEN <<[type |-> classify(trim(lines[k])).blockType, content |-> trim(lines[k])]>>
          ELSE IF isRunEnd(k) /\ (k + 1 < i \/ pc # "loop")
          THEN <<[type |-> "paragraph", content |-> runText(runStart(k), k)]>>
          ELSE <<>>)

emittedBlocks == [k \in 1..Len(contentBlocks) |->
                    [type |-> contentBlocks[k].type, content |-> contentBlocks[k].content]]

\* the buffer holds the run that is still open, and nothing after a flush
BufferInLoop ==
    pc = "loop" =>
        currentParagraph = IF i > 1 /\ lineKind(i - 1) = "prose"
                           THEN runText(runStart(i - 1), i - 1) ELSE <<>>

\* C16 (as stated): on the line-by-line path every maximal run of prose
\* lines gives one paragraph block of its lines joined by single spaces,
\* placed before the block of the special line that ends it, in document
\* order, and the buffer is empty after every flush, the last one included.
AggregationEmptiesBuffer ==
    OnLinePath =>
        /\ emittedBlocks = expectedBlocks(Len(lines))
        /\ BufferInLoop
        /\ pc = "update" => currentParagraph = <<>>

\* C16 (amended): on the line-by-line path every maximal run of prose lines
\* gives one paragraph block of its lines joined by single spaces, placed
\* before the block of the special line that ends it, in document order,
\* and the buffer is empty after every flush made inside the loop.
AggregationByRuns ==
    OnLinePath =>
        /\ emittedBlocks = expectedBlocks(Len(lines))
        /\ BufferInLoop

AggregationByRunsWitness ==
    /\ OnLinePath
    /\ pc = "update"
    /\ \E k \in 2..(Len(lines) - 1) :
          /\ lineKind(k - 1) = "prose"
          /\ lineKind(k) = "prose"
          /\ lineKind(k + 1) = "special"
    /\ lineKind(Len(lines)) = "prose"
    /\ currentParagraph # <<>>

(***************************************************************************)
(* Properties of the structure builder of ContentAnalysisService           *)
(***************************************************************************)
\* the position in casNodes of the node with the given id
nodeWithId(id) == CHOOSE k \in 1..Len(casNodes) : casNodes[k].id = id

\* C17: the parent of every heading node, the top of the stack after the
\* unwinding, has a level strictly less than the level of the node.
ParentLevelBelow ==
    \A k \in 2..Len(casNodes) :
        casNodes[nodeWithId(casNodes[k].parentId)].level < casNodes[k].level

\* C18: when extractStructureNodes has returned, the wordCount of the root
\* node is the sum of the wordCount of all the content blocks.
RootWordCountIsSum ==
    casPc = "returned" => casNodes[1].metadata.wordCount = sumWordCount(casBlocks)

\* the heading blocks before position k of the argument on a page not after
\* the page of the block at k
precedingHeadings(k) ==
    {h \in 1..(k - 1) :
        /\ isHeadingBlock(casBlocks[h])
        /\ casBlocks[h].position.page <= casBlocks[k].position.page}

\* the node made for the heading block at position h
headingNodeOf(h) ==
    CHOOSE n \in 2..Len(casNodes) : casNodes[n].contentBlockIds[1] = casBlocks[h].id

\* C19: when extractStructureNodes has returned, every non-heading block is
\* attached to the node of the heading block that most closely precedes it
\* on the same or an earlier page, and to the root when there is none.
AttachedToPrecedingHeading ==
    casPc = "returned" =>
        \A k \in 1..Len(casBlocks) :
            ~isHeadingBlock(casBlocks[k]) =>
                LET hs == precedingHeadings(k)
                    n  == IF hs = {} THEN 1
                          ELSE headingNodeOf(CHOOSE h \in hs : \A g \in hs : g <= h)
                IN  \E c \in 1..Len(casNodes[n].contentBlockIds) :
                        casNodes[n].contentBlockIds[c] = casBlocks[k].id

\* C20: the title of every heading node is the content of its block when
\* that has at most 100 characters, and else its first 100 characters
\* followed by an ellipsis.
TitleTruncatedWithEllipsis ==
    \A n \in 2..Len(casNodes) :
        LET text == casBlocks[CHOOSE h \in 1..Len(casBlocks) :
                                 casBlocks[h].id = casNodes[n].contentBlockIds[1]].content
        IN  casNodes[n].title = IF Len(text) <= 100 THEN text
                                ELSE SubSeq(text, 1, 100) \o <<".", ".", ".">>

(***************************************************************************)
(* Properties of the importance of the generated heading nodes             *)
(***************************************************************************)
\* C21: every special-line node at level L >= 1 that the generator has
\* pushed has importance max(0.1, 1.0 - (L-1)*0.2), in hundredths.
SpecialNodeImportanceDecays ==
    \A n \in 1..Len(structureNodes) :
        (structureNodes[n].type \in {"chapter", "section", "list", "contact"}
            /\ structureNodes[n].level >= 1)
        => structureNodes[n].metadata.importance
               = Max(10, 100 - (structureNodes[n].level - 1) * 20)

(***************************************************************************)
(* Properties of the table regions of extractTablesFromText                *)
(***************************************************************************)
\* C22: every line collected into the open table region is the opening
\* title line or a qualifying table line: a line that is not a table line
\* closes the region and never enters it.
RegionHoldsOnlyTableLines ==
    \A k \in 1..Len(tabState.currentTable) :
        \/ isTableLine(tabState.currentTable[k])
        \/ (k = 1 /\ isTableTitle(tabState.currentTable[k]))

(***************************************************************************)
(* Properties of the decoding of a text file                               *)
(***************************************************************************)
\* the positions of encodingsToTry whose decode has no replacement character
\* and at least 70% of its characters valid
qualifyingEncodings ==
    {k \in 1..Len(encodingsToTry) :
        LET decoded == rawBuffer.decoded[k]
        IN  /\ Len(decoded) > 0
            /\ ~includes(decoded, <<"REP">>)
            /\ validCharCount(decoded) * 10 >= 7 * Len(decoded)}

\* C23: when the detected encoding gave no text, the file content is the
\* decode of the first encoding of encodingsToTry that has no replacement
\* character and at least 70% valid characters, 70% included, and the UTF-8
\* decode when no encoding qualifies.
FirstQualifyingDecodeAccepted ==
    (encPc = "decoded" /\ rawBuffer.detected = <<>>) =>
        IF qualifyingEncodings = {}
        THEN encContent = rawBuffer.decoded[1]
        ELSE LET first == CHOOSE k \in qualifyingEncodings :
                              \A j \in qualifyingEncodings : k <= j
             IN  /\ encContent = rawBuffer.decoded[first]
                 /\ usedEncoding = encodingsToTry[first]

(***************************************************************************)
(* Properties of the parse task                                            *)
(***************************************************************************)
\* the changes of status a task may make
TaskTransitions ==
    { <<"none", "PENDING">>, <<"PENDING", "PROGRESSING">>,
      <<"PROGRESSING", "SUCCESS">>, <<"PROGRESSING", "FAILED">> }

\* C24: the task of POST /api/parse starts PENDING and changes status only
\* from PENDING to PROGRESSING and from PROGRESSING to SUCCESS or FAILED, so
\* a task in SUCCESS or FAILED keeps its status; and every PENDING task
\* eventually is in SUCCESS or FAILED.
TaskLifecycle ==
    /\ [][task' # task => <<task, task'>> \in TaskTransitions]_vars
    /\ (task = "PENDING") ~> (task \in {"SUCCESS", "FAILED"})

\* the task ended SUCCESS after the generator ran as the fallback of the API
TaskLifecycleWitness ==
    /\ task = "SUCCESS"
    /\ drvPc = "taskDone"
    /\ easyDoc.called
    /\ pc = "done"

(***************************************************************************)
(* Properties of EasyDocService.pollParseResult                            *)
(***************************************************************************)
\* a response that ends the polling: unsuccessful, or a task in SUCCESS or
\* in ERROR
isFinalResponse(r) == ~r.success \/ r.task_status \in {"SUCCESS", "ERROR"}

\* the calls and sleeps made so far are within their limits, no response
\* before the last one ended the polling, and the value returned is the one
\* the last response asks for
PollBounded ==
    /\ pollCalls <= maxAttempts
    /\ pollCalls = Len(pollResponses)
    /\ pollSleeps <= maxAttempts - 1
    /\ pollSleeps <= pollCalls
    /\ \A k \in 1..(Len(pollResponses) - 1) : ~isFinalResponse(pollResponses[k])
    /\ pollPc = "returned" =>
          LET n    == Len(pollResponses)
              last == pollResponses[n]
          IN  /\ pollSleeps = pollCalls - 1
              /\ IF isFinalResponse(last)
                 THEN pollResult = IF ~last.success \/ last.task_status = "SUCCESS"
                                   THEN last ELSE parseTaskError
                 ELSE n = maxAttempts /\ pollResult = pollTimeout
              /\ (pollResult.errCode = "TIMEOUT") <=>
                    (n = maxAttempts /\ ~isFinalResponse(last))

\* C25: pollParseResult always returns, after at most maxAttempts calls of
\* getParseResult and at most maxAttempts - 1 sleeps, none after the last
\* attempt: at the first unsuccessful response with that response, at the
\* first SUCCESS with that response, at the first ERROR with
\* PARSE_TASK_ERROR, and with TIMEOUT exactly when all maxAttempts responses
\* were successful and not final.
PollTerminates ==
    /\ []PollBounded
    /\ <>(pollPc = "returned")

\* the polling timed out after the largest number of attempts
PollTerminatesWitness ==
    /\ pollPc = "returned"
    /\ pollResult.errCode = "TIMEOUT"
    /\ maxAttempts = MaxPollAttempts
    /\ pollCalls = maxAttempts
    /\ pollSleeps = maxAttempts - 1

(***************************************************************************)
(* Properties of the references between the generated nodes and blocks     *)
(***************************************************************************)
\* the nodes whose contentBlockIds hold the id of the block
referencingNodes(blockId) ==
    {n \in 1..Len(structureNodes) :
        \E c \in 1..Len(structureNodes[n].contentBlockIds) :
            structureNodes[n].contentBlockIds[c] = blockId}

\* C26: when the generator has processed its input, every content block it
\* emitted is referenced by the contentBlockIds of exactly one structure
\* node.
EveryBlockHasOneNode ==
    pc \in {"update", "done"} =>
        \A b \in 1..Len(contentBlocks) :
            Cardinality(referencingNodes(contentBlocks[b].id)) = 1

(***************************************************************************)
(* Properties of the writes of the document                                *)
(***************************************************************************)
\* what the run that writes the document can make of a document that no
\* earlier run has written: the output of the generator, a result of the
\* API, or the basic sample
lastRunDocuments ==
    LET fresh == [status |-> "parsing", contentBlocks |-> <<>>, structureNodes |-> <<>>,
                  tables |-> <<>>, figures |-> <<>>]
    IN  { [status         |-> "completed",
           contentBlocks  |-> contentBlocks,
           structureNodes |-> structureNodes,
           tables         |-> extractTablesFromText(fileContent),
           figures        |-> extractFiguresFromText(fileContent)],
          updateDocumentWithBasicSampleData(fresh) }
        \cup { updateDocumentWithParseResult(fresh, parseData) : parseData \in ApiParseData }

\* C27: whenever a parse run writes the document, all of contentBlocks,
\* structureNodes, tables and figures come from that run: the document is
\* what the run makes of a document without an earlier run, whatever the
\* earlier runs wrote.
LastRunWritesAllFields ==
    [][document' # document => document' \in lastRunDocuments]_vars

(***************************************************************************)
(* Properties of the concurrent requests                                   *)
(***************************************************************************)
\* the object is in uploadedDocuments
isUploaded(obj) == \E k \in 1..Len(uploadedDocuments) : uploadedDocuments[k] = obj

HasHeaderMatchesFirstRow ==
    \A t \in 1..Len(tabState.tables) :
        LET table == tabState.tables[t]
        IN  /\ table.structure.hasHeader <=>
                  /\ Len(table.data) > 0
                  /\ \A c \in 1..Len(table.data[1]) : table.data[1][c].isHeader
            /\ \A r \in 2..Len(table.data) :
                  \A c \in 1..Len(table.data[r]) : ~table.data[r][c].isHeader

(***************************************************************************)
(* Properties of the status protocol between backend and frontend          *)
(***************************************************************************)
\* C30: a poll of the frontend that receives a terminal status of the
\* task, SUCCESS or the failure status FAILED, is its last poll: the
\* frontend then returns, with the result after SUCCESS and with
\* PARSE_TASK_ERROR after the failure status, and never goes on to TIMEOUT.
TerminalStatusRecognized ==
    \A k \in 1..Len(statusSeen) :
        statusSeen[k] \in {"SUCCESS", "FAILED"} =>
            /\ k = Len(statusSeen)
            /\ clientPc \in {"awaitResult", "returned"}
            /\ clientPc = "returned" =>
                  IF statusSeen[k] = "SUCCESS"
                  THEN clientResult.success
                  ELSE clientResult.code = "PARSE_TASK_ERROR"

====
